---- MODULE Spec2Model ----
(***************************************************************************)
(* A model of the jiji node: the chain engine (block validation against a  *)
(* working copy of the world state, block application, the transaction     *)
(* index) and the mempool (admission, fee eviction, purge, revalidation).  *)
(*                                                                         *)
(* Byte strings are modelled by structure: a SHA-256 digest is the tagged  *)
(* preimage (collision free), a public key is a small integer, a text is   *)
(* its length, an Ed25519 signature is the pair (signer, signed payload).  *)
(***************************************************************************)
EXTENDS Integers, Sequences, FiniteSets, TLC

(***************************************************************************)
(* Protocol parameters (jiji/core/config.py)                               *)
(***************************************************************************)
PROTOCOL_VERSION == 1
BLOCK_TIME_TARGET == 15
\* (100 in config.py) at the scale of the model's chains
DIFFICULTY_ADJUSTMENT_WINDOW == 2
MAX_DIFFICULTY_ADJUSTMENT == 4
MAX_BLOCK_SIZE == 262144
POST_BODY_LIMIT == 300
ENDORSE_MESSAGE_LIMIT == 150
MINIMUM_GAS_FEE == 1
INITIAL_BLOCK_REWARD == 50
HALVING_INTERVAL == 210000
MAX_FUTURE_TIMESTAMP == 120
MEDIAN_TIME_BLOCK_COUNT == 11
GENESIS_DIFFICULTY == 1

\* Width of a block hash read as an unsigned integer (256 in the program).
HashBits == 8
\* MAX_TARGET = (1 << 256) - 1, at the model's hash width.
MAX_TARGET == (2 ^ HashBits) - 1

\* halvings >= 64 pays nothing; INITIAL_BLOCK_REWARD >> halvings otherwise.
block_reward(height) ==
    LET halvings == height \div HALVING_INTERVAL
    IN  IF halvings >= 64 THEN 0 ELSE INITIAL_BLOCK_REWARD \div (2 ^ halvings)

(***************************************************************************)
(* Bounds of the model                                                     *)
(***************************************************************************)
\* Highest block height the chain is grown to.
MaxHeight == 2
\* Capacity the mempool is constructed with (max_size).
MaxPoolSize == 2

\* Public keys (32 bytes each); ShortKey stands for a key of another length.
Keys == {1, 2, 3}
Signers == {1, 2}
ShortKey == 0
\* target_author = None: no key.
NoAuthor == -1
KeyLen(k) == IF k = ShortKey THEN 31 ELSE 32

\* None, and b"" (the empty byte string).
None == <<>>
EmptyBytes == <<>>
\* bytes(32), the all-zero hash; a 32-byte value that is no transaction's
\* content address; a byte string that is not 32 bytes long.
ZeroHash == << <<"zero">> >>
UnknownHash == << <<"unknown">> >>
ShortHash == << <<"short">> >>
HashLen(h) == IF h = ShortHash THEN 31 ELSE 32

(***************************************************************************)
(* Canonical codec and hashing (jiji/core/serialization.py)                *)
(***************************************************************************)
\* Every key a serialized mapping can hold, in the order sort_keys gives.
SortedKeys ==
    << "amount", "author", "balance", "body", "difficulty", "gas_fee",
       "height", "message", "miner", "nonce", "prev_hash", "pubkey",
       "recipient", "reply_to", "sender", "signature", "state_root",
       "target", "timestamp", "tx_count", "tx_merkle_root", "tx_type",
       "version" >>

\* The mapping d without the excluded keys, as the key-sorted list of
\* (key, value) pairs that the canonical JSON text spells out.
canonicalize(d, exclude_fields) ==
    LET keys == SelectSeq(SortedKeys,
                          LAMBDA k : k \in DOMAIN d /\ k \notin exclude_fields)
    IN  [i \in 1..Len(keys) |-> <<keys[i], d[keys[i]]>>]

\* SHA-256, collision free: the digest is its preimage under a constructor.
sha256(data) == <<data>>

compute_hash(d, exclude_fields) == sha256(canonicalize(d, exclude_fields))

EMPTY_HASH == sha256(EmptyBytes)

(***************************************************************************)
(* Ed25519 (jiji/core/crypto.py): a key pair is one integer.               *)
(***************************************************************************)
sign(private_key, message) == <<"sig", private_key, message>>

verify(public_key, message, signature) ==
    signature = <<"sig", public_key, message>>

(***************************************************************************)
(* Transactions (jiji/core/transaction.py).  A transaction is the mapping  *)
(* its to_dict() returns; tx_type is the variant.                          *)
(***************************************************************************)
_SIGNATURE_FIELD == {"signature"}

IsCoinbase(tx) == tx.tx_type = "coinbase"
IsPost(tx) == tx.tx_type = "post"
IsEndorse(tx) == tx.tx_type = "endorse"
IsTransfer(tx) == tx.tx_type = "transfer"
IsSigned(tx) == ~IsCoinbase(tx)

Coinbase(recipient, amount, height) ==
    [tx_type |-> "coinbase", recipient |-> recipient, amount |-> amount,
     height |-> height]

Post(author, nonce, timestamp, body, reply_to, gas_fee, signature) ==
    [tx_type |-> "post", author |-> author, nonce |-> nonce,
     timestamp |-> timestamp, body |-> body, reply_to |-> reply_to,
     gas_fee |-> gas_fee, signature |-> signature]

Endorse(author, nonce, target, amount, message, gas_fee, signature) ==
    [tx_type |-> "endorse", author |-> author, nonce |-> nonce,
     target |-> target, amount |-> amount, message |-> message,
     gas_fee |-> gas_fee, signature |-> signature]

Transfer(sender, recipient, amount, nonce, gas_fee, signature) ==
    [tx_type |-> "transfer", sender |-> sender, recipient |-> recipient,
     amount |-> amount, nonce |-> nonce, gas_fee |-> gas_fee,
     signature |-> signature]

signer_key(tx) == IF IsTransfer(tx) THEN tx.sender ELSE tx.author

\* Content address: the signature does not take part (a Coinbase has none).
tx_hash(tx) ==
    IF IsCoinbase(tx) THEN compute_hash(tx, {})
    ELSE compute_hash(tx, _SIGNATURE_FIELD)

sign_tx(tx, private_key) ==
    [tx EXCEPT !.signature = sign(private_key, canonicalize(tx, _SIGNATURE_FIELD))]

verify_signature(tx) ==
    IF tx.signature = EmptyBytes THEN FALSE
    ELSE verify(signer_key(tx), canonicalize(tx, _SIGNATURE_FIELD), tx.signature)

_get_gas_fee(tx) == IF IsSigned(tx) THEN tx.gas_fee ELSE 0

(***************************************************************************)
(* Merkle root (jiji/core/merkle.py)                                       *)
(***************************************************************************)
\* One level up: an odd level repeats its last node, pairs are hashed.
MerkleLevelUp(level) ==
    LET padded == IF Len(level) % 2 = 1
                  THEN Append(level, level[Len(level)]) ELSE level
    IN  [i \in 1..(Len(padded) \div 2) |->
            sha256(<<padded[2 * i - 1], padded[2 * i]>>)]

RECURSIVE MerkleReduce(_)
MerkleReduce(level) ==
    IF Len(level) > 1 THEN MerkleReduce(MerkleLevelUp(level)) ELSE level[1]

merkle_root(hashes) ==
    IF hashes = <<>> THEN EMPTY_HASH ELSE MerkleReduce(hashes)

(***************************************************************************)
(* World state (jiji/core/state.py): a function from the keys that have    *)
(* an account to [balance, nonce].                                         *)
(***************************************************************************)
Account == [balance |-> 0, nonce |-> 0]
EmptyState == <<>>

HasAccount(st, pubkey) == pubkey \in DOMAIN st

get_or_create(st, pubkey) ==
    IF pubkey \in DOMAIN st THEN st ELSE st @@ (pubkey :> Account)

Credit(st, pubkey, amount) ==
    LET s == get_or_create(st, pubkey)
    IN  [s EXCEPT ![pubkey].balance = @ + amount]

\* Debit the signer and advance its nonce.
Spend(st, pubkey, amount) ==
    LET s == get_or_create(st, pubkey)
    IN  [s EXCEPT ![pubkey].balance = @ - amount, ![pubkey].nonce = @ + 1]

_apply_coinbase(st, tx) == Credit(st, tx.recipient, tx.amount)

_apply_post(st, tx, miner) ==
    Credit(Spend(st, tx.author, tx.gas_fee), miner, tx.gas_fee)

\* Mutant: the tip is debited and credited to nobody.
_apply_endorse_untipped(st, tx, miner, target_author) ==
    Credit(Spend(st, tx.author, tx.gas_fee + tx.amount), miner, tx.gas_fee)

_apply_endorse(st, tx, miner, target_author) ==
    LET s == Credit(Spend(st, tx.author, tx.gas_fee + tx.amount),
                    miner, tx.gas_fee)
    IN  IF tx.amount > 0 /\ target_author # NoAuthor
        THEN Credit(s, target_author, tx.amount)
        ELSE s

_apply_transfer(st, tx, miner) ==
    Credit(Credit(Spend(st, tx.sender, tx.amount + tx.gas_fee),
                  tx.recipient, tx.amount),
           miner, tx.gas_fee)

apply_transaction(st, tx, miner, target_author) ==
    IF IsCoinbase(tx) THEN _apply_coinbase(st, tx)
    ELSE IF IsPost(tx) THEN _apply_post(st, tx, miner)
    ELSE IF IsEndorse(tx) THEN _apply_endorse(st, tx, miner, target_author)
    ELSE _apply_transfer(st, tx, miner)

\* The account keys in ascending order (sorted(self.accounts.keys())).
RECURSIVE SortedSeq(_)
SortedSeq(S) ==
    IF S = {} THEN <<>>
    ELSE LET m == CHOOSE x \in S : \A y \in S : x <= y
         IN  <<m>> \o SortedSeq(S \ {m})

state_root(st) ==
    IF DOMAIN st = {} THEN EMPTY_HASH
    ELSE LET ks == SortedSeq(DOMAIN st)
             leaf_hashes ==
                 [i \in 1..Len(ks) |->
                     sha256(canonicalize([pubkey |-> ks[i],
                                          balance |-> st[ks[i]].balance,
                                          nonce |-> st[ks[i]].nonce], {}))]
         IN  merkle_root(leaf_hashes)

(***************************************************************************)
(* Blocks (jiji/core/block.py)                                             *)
(***************************************************************************)
BlockHeader(version, height, prev_hash, timestamp, miner, difficulty, nonce, tx_merkle_root, state_root_, tx_count) ==
    [version |-> version, height |-> height, prev_hash |-> prev_hash,
     timestamp |-> timestamp, miner |-> miner, difficulty |-> difficulty,
     nonce |-> nonce, tx_merkle_root |-> tx_merkle_root,
     state_root |-> state_root_, tx_count |-> tx_count]

Block(header, transactions) ==
    [header |-> header, transactions |-> transactions]

\* SHA-256 of the canonical header serialization.
block_hash(block) == sha256(canonicalize(block.header, {}))

TxHashes(transactions) ==
    [i \in 1..Len(transactions) |-> tx_hash(transactions[i])]

compute_tx_merkle_root(block) == merkle_root(TxHashes(block.transactions))

\* The digest read as a big-endian unsigned integer, at the model's width:
\* a mix of the header fields that a change of nonce changes.
hash_int(block) ==
    LET h == block.header
    IN  (h.nonce * 37 + h.timestamp * 11 + h.height * 101 + h.miner * 53
         + h.tx_count * 7 + 19) % (2 ^ HashBits)

meets_difficulty(block) ==
    hash_int(block) <= MAX_TARGET \div block.header.difficulty

\* Bytes of one transaction in canonical JSON: a fixed part per variant
\* (keys, hex fields, signature) plus its text.
TxBytes(tx) ==
    IF IsCoinbase(tx) THEN 120
    ELSE IF IsPost(tx) THEN 330 + tx.body
    ELSE IF IsEndorse(tx) THEN 390 + tx.message
    ELSE 360

RECURSIVE SumBytes(_)
SumBytes(transactions) ==
    IF transactions = <<>> THEN 0
    ELSE TxBytes(Head(transactions)) + SumBytes(Tail(transactions))

serialized_size(block) == 420 + SumBytes(block.transactions)

(***************************************************************************)
(* Transaction format validation (jiji/core/validation.py)                 *)
(***************************************************************************)
validate_post_format(tx) ==
    IF tx.body = 0 THEN "post body must be a non-empty string"
    ELSE IF tx.body > POST_BODY_LIMIT THEN "post body exceeds limit"
    ELSE IF KeyLen(tx.author) # 32 THEN "author key must be 32 bytes"
    ELSE IF tx.nonce < 0 THEN "nonce must be non-negative"
    ELSE IF tx.gas_fee < MINIMUM_GAS_FEE THEN "gas fee below minimum"
    ELSE IF tx.reply_to # None /\ HashLen(tx.reply_to) # 32
         THEN "reply_to must be 32 bytes or null"
    ELSE IF ~verify_signature(tx) THEN "invalid post signature"
    ELSE "ok"

validate_endorse_format(tx) ==
    IF KeyLen(tx.author) # 32 THEN "author key must be 32 bytes"
    ELSE IF HashLen(tx.target) # 32 THEN "target must be 32 bytes"
    ELSE IF tx.nonce < 0 THEN "nonce must be non-negative"
    ELSE IF tx.amount < 0 THEN "amount must be non-negative"
    ELSE IF tx.message > ENDORSE_MESSAGE_LIMIT THEN "message exceeds limit"
    ELSE IF tx.gas_fee < MINIMUM_GAS_FEE THEN "gas fee below minimum"
    ELSE IF ~verify_signature(tx) THEN "invalid endorsement signature"
    ELSE "ok"

validate_transfer_format(tx) ==
    IF KeyLen(tx.sender) # 32 THEN "sender key must be 32 bytes"
    ELSE IF KeyLen(tx.recipient) # 32 THEN "recipient key must be 32 bytes"
    ELSE IF tx.sender = tx.recipient THEN "sender and recipient must differ"
    ELSE IF tx.amount <= 0 THEN "transfer amount must be positive"
    ELSE IF tx.nonce < 0 THEN "nonce must be non-negative"
    ELSE IF tx.gas_fee < MINIMUM_GAS_FEE THEN "gas fee below minimum"
    ELSE IF ~verify_signature(tx) THEN "invalid transfer signature"
    ELSE "ok"

validate_coinbase_format(tx, expected_height) ==
    IF KeyLen(tx.recipient) # 32 THEN "coinbase recipient must be 32 bytes"
    ELSE IF tx.height # expected_height THEN "coinbase height mismatch"
    ELSE IF tx.amount # block_reward(expected_height)
         THEN "coinbase amount != expected"
    ELSE "ok"

validate_transaction_format(tx, expected_height) ==
    IF IsPost(tx) THEN validate_post_format(tx)
    ELSE IF IsEndorse(tx) THEN validate_endorse_format(tx)
    ELSE IF IsTransfer(tx) THEN validate_transfer_format(tx)
    ELSE validate_coinbase_format(tx, expected_height)

(***************************************************************************)
(* State validation: balance, nonce, referenced posts                      *)
(***************************************************************************)
_validate_post_state(tx, st, known) ==
    IF ~HasAccount(st, tx.author) THEN "author account does not exist"
    ELSE IF tx.nonce # st[tx.author].nonce THEN "nonce mismatch"
    ELSE IF st[tx.author].balance < tx.gas_fee
         THEN "insufficient balance for gas fee"
    ELSE IF tx.reply_to # None /\ tx.reply_to \notin known
         THEN "reply_to references unknown post"
    ELSE "ok"

_validate_endorse_state(tx, st, known) ==
    IF ~HasAccount(st, tx.author) THEN "author account does not exist"
    ELSE IF tx.nonce # st[tx.author].nonce THEN "nonce mismatch"
    ELSE IF st[tx.author].balance < tx.gas_fee + tx.amount
         THEN "insufficient balance for gas + tip"
    ELSE IF tx.target \notin known
         THEN "endorsement target is not a known post"
    ELSE "ok"

\* Mutant: the balance is not compared with the transfer's cost.
_validate_transfer_state_unfunded(tx, st) ==
    IF ~HasAccount(st, tx.sender) THEN "sender account does not exist"
    ELSE IF tx.nonce # st[tx.sender].nonce THEN "nonce mismatch"
    ELSE "ok"

_validate_transfer_state(tx, st) ==
    IF ~HasAccount(st, tx.sender) THEN "sender account does not exist"
    ELSE IF tx.nonce # st[tx.sender].nonce THEN "nonce mismatch"
    ELSE IF st[tx.sender].balance < tx.amount + tx.gas_fee
         THEN "insufficient balance for transfer + gas"
    ELSE "ok"

validate_transaction_state(tx, st, known) ==
    IF IsPost(tx) THEN _validate_post_state(tx, st, known)
    ELSE IF IsEndorse(tx) THEN _validate_endorse_state(tx, st, known)
    ELSE IF IsTransfer(tx) THEN _validate_transfer_state(tx, st)
    ELSE "ok"

(***************************************************************************)
(* The chain (jiji/core/chain.py), as a record of the Blockchain fields.   *)
(* blocks, tx_index and post_authors are functions on the hashes they hold.*)
(***************************************************************************)
EmptyChain ==
    [blocks |-> <<>>, main_chain |-> <<>>, state |-> EmptyState,
     tx_index |-> <<>>, known_posts |-> {}, post_authors |-> <<>>]

\* Current chain height (-1 if empty).
height(c) == Len(c.main_chain) - 1

tip(c) == IF c.main_chain = <<>> THEN None
          ELSE c.blocks[c.main_chain[Len(c.main_chain)]]

get_block_by_height(c, h) ==
    IF 0 <= h /\ h < Len(c.main_chain) THEN c.blocks[c.main_chain[h + 1]]
    ELSE None

\* Timestamps of the last `count` main-chain blocks, oldest first.
get_recent_timestamps(c, count) ==
    LET n == Len(c.main_chain)
        start == IF n - count > 0 THEN n - count ELSE 0
    IN  [i \in 1..(n - start) |-> c.blocks[c.main_chain[start + i]].header.timestamp]

\* Twice statistics.median(data): the middle value, or the mean of the two
\* middle values, of the sorted data (doubled to stay in the integers).
median2(data) ==
    LET sorted == SortSeq(data, LAMBDA a, b : a < b)
        n == Len(sorted)
    IN  IF n % 2 = 1 THEN 2 * sorted[(n + 1) \div 2]
        ELSE sorted[n \div 2] + sorted[n \div 2 + 1]

(***************************************************************************)
(* Difficulty (jiji/core/validation.py)                                    *)
(***************************************************************************)
Max(a, b) == IF a >= b THEN a ELSE b
Min(a, b) == IF a <= b THEN a ELSE b

\* Precision of a Python float in bits (53), at the model's width.
FloatBits == 20

\* int.bit_length()
RECURSIVE BitLength(_)
BitLength(n) == IF n = 0 THEN 0 ELSE 1 + BitLength(n \div 2)

\* n / 2^k rounded to the nearest integer, ties to the even one.
RoundHalfEven(n, k) ==
    IF k = 0 THEN n
    ELSE IF \/ n % (2 ^ k) > 2 ^ (k - 1)
            \/ n % (2 ^ k) = 2 ^ (k - 1) /\ (n \div (2 ^ k)) % 2 = 1
    THEN n \div (2 ^ k) + 1
    ELSE n \div (2 ^ k)

\* The float nearest to n * 2^e: [m, e] stands for m * 2^e, m < 2^FloatBits.
Float(n, e) ==
    IF n < 2 ^ FloatBits THEN [m |-> n, e |-> e]
    ELSE IF RoundHalfEven(n, BitLength(n) - FloatBits) = 2 ^ FloatBits
    THEN [m |-> 2 ^ (FloatBits - 1), e |-> e + BitLength(n) - FloatBits + 1]
    ELSE [m |-> RoundHalfEven(n, BitLength(n) - FloatBits),
          e |-> e + BitLength(n) - FloatBits]

\* x / y on positive integers (true division): the quotient to
\* FloatBits + 3 binary places with a sticky bit for the remainder, rounded.
TrueDiv(x, y) ==
    Float(2 * ((x * 2 ^ (FloatBits + 3)) \div y)
              + (IF (x * 2 ^ (FloatBits + 3)) % y = 0 THEN 0 ELSE 1),
          -(FloatBits + 4))

\* f <= g on floats
FloatLE(f, g) ==
    IF f.e >= g.e THEN f.m * 2 ^ (f.e - g.e) <= g.m
    ELSE f.m <= g.m * 2 ^ (g.e - f.e)

FloatMin(f, g) == IF FloatLE(g, f) THEN g ELSE f
FloatMax(f, g) == IF FloatLE(f, g) THEN g ELSE f

\* n * f for an integer n and a float f: n is converted to float first.
IntTimes(n, f) == Float(Float(n, 0).m * f.m, Float(n, 0).e + f.e)

\* int(f) for a float f >= 0
Trunc(f) == IF f.e >= 0 THEN f.m * 2 ^ f.e ELSE f.m \div (2 ^ (-f.e))

\* The retarget of compute_expected_difficulty with the clamp left out
Retarget_unclamped(prev_difficulty, actual_time, expected_time) ==
    Max(1, Trunc(IntTimes(prev_difficulty,
                          TrueDiv(expected_time, actual_time))))

\* ratio = expected_time / actual_time;
\* ratio = max(1.0 / MAX_DIFFICULTY_ADJUSTMENT,
\*             min(MAX_DIFFICULTY_ADJUSTMENT, ratio));
\* max(1, int(prev_difficulty * ratio))
Retarget(prev_difficulty, actual_time, expected_time) ==
    Max(1, Trunc(IntTimes(
               prev_difficulty,
               FloatMax(TrueDiv(1, MAX_DIFFICULTY_ADJUSTMENT),
                        FloatMin(Float(MAX_DIFFICULTY_ADJUSTMENT, 0),
                                 TrueDiv(expected_time, actual_time))))))

\* compute_expected_difficulty at a window boundary, from the first
\* block of the window and the block before the boundary
WindowRetarget(window_start, window_end) ==
    Retarget(window_end.header.difficulty,
             IF window_end.header.timestamp
                    - window_start.header.timestamp <= 0
             THEN 1
             ELSE window_end.header.timestamp
                      - window_start.header.timestamp,
             DIFFICULTY_ADJUSTMENT_WINDOW * BLOCK_TIME_TARGET)

compute_expected_difficulty(c, h) ==
    IF h = 0 THEN GENESIS_DIFFICULTY
    ELSE IF h % DIFFICULTY_ADJUSTMENT_WINDOW # 0
         THEN get_block_by_height(c, h - 1).header.difficulty
    ELSE IF \/ get_block_by_height(c, h - DIFFICULTY_ADJUSTMENT_WINDOW) = None
            \/ get_block_by_height(c, h - 1) = None
         THEN GENESIS_DIFFICULTY
    ELSE WindowRetarget(
             get_block_by_height(c, h - DIFFICULTY_ADJUSTMENT_WINDOW),
             get_block_by_height(c, h - 1))

(***************************************************************************)
(* Block validation (jiji/core/validation.py)                              *)
(***************************************************************************)
\* dict.get: the author recorded for a post hash, or None.
AuthorOf(authors, post_hash) ==
    IF post_hash \in DOMAIN authors THEN authors[post_hash] ELSE NoAuthor

\* The author an endorsement's tip goes to, resolved in `authors`.
ResolveTargetAuthor(tx, authors) ==
    IF IsEndorse(tx) /\ tx.amount > 0 THEN AuthorOf(authors, tx.target)
    ELSE NoAuthor

\* The working copies validate_block starts its transaction loop with.
WorkingCopy(c) ==
    [err |-> "ok", state |-> c.state, posts |-> c.known_posts,
     authors |-> c.post_authors, seen |-> {}]

\* Mutant: no duplicate check.
ValidateTx_nodup(tx, header, c, w) ==
    LET tx_h == tx_hash(tx)
        fmt == validate_transaction_format(tx, header.height)
        st == IF IsCoinbase(tx) THEN "ok"
              ELSE validate_transaction_state(tx, w.state, w.posts)
    IN  IF fmt # "ok" THEN [w EXCEPT !.err = fmt]
        ELSE IF st # "ok" THEN [w EXCEPT !.err = st]
        ELSE [err |-> "ok",
              state |-> apply_transaction(w.state, tx, header.miner,
                                          ResolveTargetAuthor(tx, w.authors)),
              posts |-> IF IsPost(tx) THEN w.posts \cup {tx_h} ELSE w.posts,
              authors |-> IF IsPost(tx) THEN (tx_h :> tx.author) @@ w.authors
                          ELSE w.authors,
              seen |-> w.seen \cup {tx_h}]

\* Mutant: a post of the block is not added to the working posts.
ValidateTx_untracked(tx, header, c, w) ==
    LET tx_h == tx_hash(tx)
        fmt == validate_transaction_format(tx, header.height)
        st == IF IsCoinbase(tx) THEN "ok"
              ELSE validate_transaction_state(tx, w.state, w.posts)
    IN  IF tx_h \in w.seen \/ tx_h \in DOMAIN c.tx_index
        THEN [w EXCEPT !.err = "duplicate transaction"]
        ELSE IF fmt # "ok" THEN [w EXCEPT !.err = fmt]
        ELSE IF st # "ok" THEN [w EXCEPT !.err = st]
        ELSE [w EXCEPT
                !.state = apply_transaction(@, tx, header.miner,
                                            ResolveTargetAuthor(tx, w.authors)),
                !.seen = @ \cup {tx_h}]

\* One turn of the loop over block.transactions: duplicate check, format,
\* state, apply to the working state, track a new post.
ValidateTx(tx, header, c, w) ==
    LET tx_h == tx_hash(tx)
        fmt == validate_transaction_format(tx, header.height)
        st == IF IsCoinbase(tx) THEN "ok"
              ELSE validate_transaction_state(tx, w.state, w.posts)
    IN  IF tx_h \in w.seen \/ tx_h \in DOMAIN c.tx_index
        THEN [w EXCEPT !.err = "duplicate transaction"]
        ELSE IF fmt # "ok" THEN [w EXCEPT !.err = fmt]
        ELSE IF st # "ok" THEN [w EXCEPT !.err = st]
        ELSE [err |-> "ok",
              state |-> apply_transaction(w.state, tx, header.miner,
                                          ResolveTargetAuthor(tx, w.authors)),
              posts |-> IF IsPost(tx) THEN w.posts \cup {tx_h} ELSE w.posts,
              authors |-> IF IsPost(tx) THEN (tx_h :> tx.author) @@ w.authors
                          ELSE w.authors,
              seen |-> w.seen \cup {tx_h}]

\* The loop, stopped by the first error.
RECURSIVE ValidateTxs(_, _, _, _)
ValidateTxs(transactions, header, c, w) ==
    IF transactions = <<>> \/ w.err # "ok" THEN w
    ELSE ValidateTxs(Tail(transactions), header, c,
                     ValidateTx(Head(transactions), header, c, w))

\* Mutant: the tip's own height is expected.
expected_height_stale(c) == height(c)

\* Mutant: the all-zero hash is expected whatever the tip.
expected_prev_zero(c) == ZeroHash

\* The height and the predecessor hash a new block must carry.
expected_height(c) == height(c) + 1

expected_prev(c) ==
    IF tip(c) # None THEN block_hash(tip(c)) ELSE ZeroHash

OtherCoinbase(block) ==
    \E i \in 2..Len(block.transactions) : IsCoinbase(block.transactions[i])

\* "ok", or the reason of the ValidationError raised.
validate_block(block, c, current_time) ==
    LET header == block.header
        recent == get_recent_timestamps(c, MEDIAN_TIME_BLOCK_COUNT)
        coinbase == block.transactions[1]
        w == ValidateTxs(block.transactions, header, c, WorkingCopy(c))
    IN  IF header.version # PROTOCOL_VERSION THEN "unsupported version"
        ELSE IF header.height # expected_height(c) THEN "height mismatch"
        ELSE IF header.prev_hash # expected_prev(c)
             THEN "prev_hash does not match tip"
        ELSE IF height(c) >= 0 /\ recent # <<>>
                /\ 2 * header.timestamp <= median2(recent)
             THEN "timestamp not above median of recent blocks"
        ELSE IF header.timestamp > current_time + MAX_FUTURE_TIMESTAMP
             THEN "timestamp too far in the future"
        ELSE IF header.difficulty
                # compute_expected_difficulty(c, header.height)
             THEN "difficulty mismatch"
        ELSE IF ~meets_difficulty(block)
             THEN "block does not meet difficulty target"
        ELSE IF header.tx_count # Len(block.transactions)
             THEN "tx_count does not match transaction list"
        ELSE IF block.transactions = <<>> THEN "block has no transactions"
        ELSE IF ~IsCoinbase(coinbase) THEN "first transaction must be coinbase"
        ELSE IF validate_coinbase_format(coinbase, header.height) # "ok"
             THEN validate_coinbase_format(coinbase, header.height)
        ELSE IF coinbase.recipient # header.miner
             THEN "coinbase recipient must match block miner"
        ELSE IF OtherCoinbase(block) THEN "only one coinbase per block"
        ELSE IF w.err # "ok" THEN w.err
        ELSE IF header.tx_merkle_root # compute_tx_merkle_root(block)
             THEN "tx_merkle_root mismatch"
        ELSE IF header.state_root # state_root(w.state)
             THEN "state_root mismatch"
        ELSE IF serialized_size(block) > MAX_BLOCK_SIZE
             THEN "block exceeds maximum size"
        ELSE "ok"

(***************************************************************************)
(* Applying a block (jiji/core/chain.py)                                   *)
(***************************************************************************)
\* Mutant: only posts are entered into tx_index.
ApplyTx_postindex(c, tx, bh, miner) ==
    LET tx_h == tx_hash(tx)
        posts == IF IsPost(tx) THEN c.known_posts \cup {tx_h}
                 ELSE c.known_posts
        authors == IF IsPost(tx) THEN (tx_h :> tx.author) @@ c.post_authors
                   ELSE c.post_authors
    IN  [c EXCEPT !.tx_index = IF IsPost(tx) THEN (tx_h :> bh) @@ @ ELSE @,
                  !.known_posts = posts,
                  !.post_authors = authors,
                  !.state = apply_transaction(@, tx, miner,
                                ResolveTargetAuthor(tx, authors))]

\* One turn of the loop of _apply_block: index the transaction, record a
\* post and its author, then apply to the state.
ApplyTx(c, tx, bh, miner) ==
    LET tx_h == tx_hash(tx)
        posts == IF IsPost(tx) THEN c.known_posts \cup {tx_h}
                 ELSE c.known_posts
        authors == IF IsPost(tx) THEN (tx_h :> tx.author) @@ c.post_authors
                   ELSE c.post_authors
    IN  [c EXCEPT !.tx_index = (tx_h :> bh) @@ @,
                  !.known_posts = posts,
                  !.post_authors = authors,
                  !.state = apply_transaction(@, tx, miner,
                                ResolveTargetAuthor(tx, authors))]

RECURSIVE ApplyTxs(_, _, _, _)
ApplyTxs(c, transactions, bh, miner) ==
    IF transactions = <<>> THEN c
    ELSE ApplyTxs(ApplyTx(c, Head(transactions), bh, miner),
                  Tail(transactions), bh, miner)

_apply_block(c, block) ==
    LET bh == block_hash(block)
        c1 == [c EXCEPT !.blocks = (bh :> block) @@ @,
                        !.main_chain = Append(@, bh)]
    IN  ApplyTxs(c1, block.transactions, bh, block.header.miner)

\* The first nonce, counting up from the header's, that meets the target.
RECURSIVE Grind(_)
Grind(block) ==
    IF meets_difficulty(block) THEN block
    ELSE Grind([block EXCEPT !.header.nonce = @ + 1])

\* The block initialize_genesis builds for an empty chain.
GenesisBlock(miner_pubkey, timestamp) ==
    LET coinbase == Coinbase(miner_pubkey, block_reward(0), 0)
        tx_root == merkle_root(<<tx_hash(coinbase)>>)
        temp_state == apply_transaction(EmptyState, coinbase, miner_pubkey, NoAuthor)
        header == BlockHeader(PROTOCOL_VERSION, 0, ZeroHash, timestamp,
                              miner_pubkey, GENESIS_DIFFICULTY, 0, tx_root,
                              state_root(temp_state), 1)
    IN  Grind(Block(header, <<coinbase>>))

initialize_genesis(c, miner_pubkey, timestamp) ==
    _apply_block(c, GenesisBlock(miner_pubkey, timestamp))

\* Blockchain.get_block_by_hash
get_block_by_hash(c, h) ==
    IF h \in DOMAIN c.blocks THEN c.blocks[h] ELSE None

\* Look up a confirmed transaction by hash (None when there is none).
get_transaction(c, h) ==
    IF h \notin DOMAIN c.tx_index THEN None
    ELSE LET txs == c.blocks[c.tx_index[h]].transactions
             hits == {i \in 1..Len(txs) : tx_hash(txs[i]) = h}
         IN  IF hits = {} THEN None
             ELSE txs[CHOOSE i \in hits : \A j \in hits : i <= j]

(***************************************************************************)
(* The mempool (jiji/mining/mempool.py).  _txs is a dict: its entries are  *)
(* kept in insertion order, their keys are the content addresses.          *)
(***************************************************************************)
PoolHashes(pool) == {tx_hash(pool._txs[i]) : i \in 1..Len(pool._txs)}

\* Mempool.get_by_hash
get_by_hash(pool, h) ==
    IF \E k \in 1..Len(pool._txs) : tx_hash(pool._txs[k]) = h
    THEN pool._txs[CHOOSE k \in 1..Len(pool._txs) :
                       tx_hash(pool._txs[k]) = h]
    ELSE None

\* Mutant: the oldest entry is taken for the cheapest.
_find_lowest_fee_oldest(pool) == IF pool._txs = <<>> THEN 0 ELSE 1

\* The entry _find_lowest_fee returns: the first one, in insertion order,
\* whose fee no entry undercuts (0 when the pool is empty).
_find_lowest_fee(pool) ==
    IF pool._txs = <<>> THEN 0
    ELSE CHOOSE i \in 1..Len(pool._txs) :
            /\ \A j \in 1..Len(pool._txs) :
                    _get_gas_fee(pool._txs[i]) <= _get_gas_fee(pool._txs[j])
            /\ \A j \in 1..(i - 1) :
                    _get_gas_fee(pool._txs[j]) > _get_gas_fee(pool._txs[i])

RemoveAt(s, i) == [k \in 1..(Len(s) - 1) |-> IF k < i THEN s[k] ELSE s[k + 1]]

\* Mutant: a full pool evicts its cheapest entry before the transaction is
\* validated.
MempoolAdd_evictfirst(pool, c, tx) ==
    LET fmt == validate_transaction_format(tx, 0)
        st == validate_transaction_state(tx, c.state, c.known_posts)
        lowest == _find_lowest_fee(pool)
        room == IF Len(pool._txs) >= pool._max_size /\ lowest # 0
                THEN [pool EXCEPT !._txs = RemoveAt(@, lowest)]
                ELSE pool
        reject(e) == [err |-> e, pool |-> room]
    IN  IF IsCoinbase(tx)
        THEN reject("coinbase transactions cannot be added to mempool")
        ELSE IF tx_hash(tx) \in PoolHashes(pool)
        THEN reject("transaction already in mempool")
        ELSE IF tx_hash(tx) \in DOMAIN c.tx_index
        THEN reject("transaction already confirmed")
        ELSE IF fmt # "ok" THEN reject(fmt)
        ELSE IF st # "ok" THEN reject(st)
        ELSE [err |-> "ok", pool |-> [room EXCEPT !._txs = Append(@, tx)]]

\* Mutant: a full pool admits without evicting.
MempoolAdd_unbounded(pool, c, tx) ==
    LET fmt == validate_transaction_format(tx, 0)
        st == validate_transaction_state(tx, c.state, c.known_posts)
        reject(e) == [err |-> e, pool |-> pool]
    IN  IF IsCoinbase(tx)
        THEN reject("coinbase transactions cannot be added to mempool")
        ELSE IF tx_hash(tx) \in PoolHashes(pool)
        THEN reject("transaction already in mempool")
        ELSE IF tx_hash(tx) \in DOMAIN c.tx_index
        THEN reject("transaction already confirmed")
        ELSE IF fmt # "ok" THEN reject(fmt)
        ELSE IF st # "ok" THEN reject(st)
        ELSE [err |-> "ok", pool |-> [pool EXCEPT !._txs = Append(@, tx)]]

\* Mempool.add: [err, pool], err = "ok" or the reason of the ValidationError.
MempoolAdd(pool, c, tx) ==
    LET fmt == validate_transaction_format(tx, 0)
        st == validate_transaction_state(tx, c.state, c.known_posts)
        lowest == _find_lowest_fee(pool)
        reject(e) == [err |-> e, pool |-> pool]
    IN  IF IsCoinbase(tx)
        THEN reject("coinbase transactions cannot be added to mempool")
        ELSE IF tx_hash(tx) \in PoolHashes(pool)
        THEN reject("transaction already in mempool")
        ELSE IF tx_hash(tx) \in DOMAIN c.tx_index
        THEN reject("transaction already confirmed")
        ELSE IF fmt # "ok" THEN reject(fmt)
        ELSE IF st # "ok" THEN reject(st)
        ELSE IF Len(pool._txs) >= pool._max_size
        THEN IF lowest # 0 /\ _get_gas_fee(tx) > _get_gas_fee(pool._txs[lowest])
             THEN [err |-> "ok",
                   pool |-> [pool EXCEPT
                                !._txs = Append(RemoveAt(@, lowest), tx)]]
             ELSE reject("mempool full and fee too low for eviction")
        ELSE [err |-> "ok", pool |-> [pool EXCEPT !._txs = Append(@, tx)]]

\* Mempool.remove: drop the entry with this hash, if any.
MempoolRemove(pool, h) ==
    [pool EXCEPT !._txs = SelectSeq(@, LAMBDA t : tx_hash(t) # h)]

\* Mempool.remove_confirmed: drop every entry whose hash is in the block.
remove_confirmed(pool, block) ==
    LET confirmed == {tx_hash(block.transactions[i]) :
                         i \in 1..Len(block.transactions)}
    IN  [pool EXCEPT !._txs = SelectSeq(@, LAMBDA t : tx_hash(t) \notin confirmed)]

StateValid(tx, c) ==
    validate_transaction_state(tx, c.state, c.known_posts) = "ok"

\* Mutant: the purge stops after the first entry it drops.
revalidate_once(pool, c) ==
    LET bad == {i \in 1..Len(pool._txs) : ~StateValid(pool._txs[i], c)}
        first == CHOOSE i \in bad : \A j \in bad : i <= j
    IN  IF bad = {} THEN [pool |-> pool, removed |-> <<>>]
        ELSE [pool |-> [pool EXCEPT !._txs = RemoveAt(@, first)],
              removed |-> <<tx_hash(pool._txs[first])>>]

\* Mempool.revalidate: [pool, removed]; removed lists the dropped hashes.
revalidate(pool, c) ==
    LET dropped == SelectSeq(pool._txs, LAMBDA t : ~StateValid(t, c))
    IN  [pool |-> [pool EXCEPT !._txs = SelectSeq(@, LAMBDA t : StateValid(t, c))],
         removed |-> [i \in 1..Len(dropped) |-> tx_hash(dropped[i])]]

\* get_pending called without a limit (limit is None).
NoLimit == -1

\* Mutant: ascending sort, then reversed: equal fees come out latest first.
get_pending_reversed(pool, limit) ==
    LET n == Len(pool._txs)
        order == SortSeq([i \in 1..n |-> i],
                         LAMBDA i, j :
                            \/ _get_gas_fee(pool._txs[i]) > _get_gas_fee(pool._txs[j])
                            \/ /\ _get_gas_fee(pool._txs[i]) = _get_gas_fee(pool._txs[j])
                               /\ i > j)
        txs == [k \in 1..n |-> pool._txs[order[k]]]
    IN  IF limit = NoLimit THEN txs ELSE SubSeq(txs, 1, Min(limit, n))

\* Mempool.get_pending: sorted(values, key=_get_gas_fee, reverse=True), a
\* stable sort, cut to txs[:limit] when a limit (>= 0) is given.
get_pending(pool, limit) ==
    LET n == Len(pool._txs)
        order == SortSeq([i \in 1..n |-> i],
                         LAMBDA i, j :
                            \/ _get_gas_fee(pool._txs[i]) > _get_gas_fee(pool._txs[j])
                            \/ /\ _get_gas_fee(pool._txs[i]) = _get_gas_fee(pool._txs[j])
                               /\ i < j)
        txs == [k \in 1..n |-> pool._txs[order[k]]]
    IN  IF limit = NoLimit THEN txs ELSE SubSeq(txs, 1, Min(limit, n))

(***************************************************************************)
(* The miner (jiji/mining/miner.py)                                        *)
(***************************************************************************)
\* len(str(tx.to_dict())): a fixed part per variant plus the text, counted
\* in characters.
EstChars(tx) ==
    IF IsCoinbase(tx) THEN 131
    ELSE IF IsPost(tx) THEN 344 + tx.body
    ELSE IF IsEndorse(tx) THEN 404 + tx.message
    ELSE 372

RECURSIVE SumChars(_)
SumChars(txs) ==
    IF txs = <<>> THEN 0 ELSE EstChars(Head(txs)) + SumChars(Tail(txs))

_estimate_block_size(txs) == 200 + SumChars(txs)

\* What create_block_template carries through its loop over the pending
\* transactions; stopped is set by the break on the size estimate.
TemplateStart(c, coinbase, pubkey) ==
    [state |-> apply_transaction(c.state, coinbase, pubkey, NoAuthor),
     posts |-> c.known_posts, authors |-> c.post_authors,
     selected |-> <<coinbase>>, stopped |-> FALSE]

\* Mutant: the loop ends at the first candidate that fails validation.
SelectTx_stop(tx, pubkey, w) ==
    IF \/ validate_transaction_format(tx, 0) # "ok"
       \/ validate_transaction_state(tx, w.state, w.posts) # "ok"
    THEN [w EXCEPT !.stopped = TRUE]
    ELSE [w EXCEPT
            !.state = apply_transaction(@, tx, pubkey,
                                        ResolveTargetAuthor(tx, w.authors)),
            !.selected = Append(@, tx),
            !.posts = IF IsPost(tx) THEN @ \cup {tx_hash(tx)} ELSE @,
            !.authors = IF IsPost(tx) THEN (tx_hash(tx) :> tx.author) @@ @
                        ELSE @]

\* One turn of the loop: skip a candidate that fails format or state
\* validation, stop when the size estimate would pass MAX_BLOCK_SIZE, else
\* apply and select it.
SelectTx(tx, pubkey, w) ==
    IF \/ validate_transaction_format(tx, 0) # "ok"
       \/ validate_transaction_state(tx, w.state, w.posts) # "ok"
    THEN w
    ELSE IF _estimate_block_size(Append(w.selected, tx)) > MAX_BLOCK_SIZE
    THEN [w EXCEPT !.stopped = TRUE]
    ELSE [w EXCEPT
            !.state = apply_transaction(@, tx, pubkey,
                                        ResolveTargetAuthor(tx, w.authors)),
            !.selected = Append(@, tx),
            !.posts = IF IsPost(tx) THEN @ \cup {tx_hash(tx)} ELSE @,
            !.authors = IF IsPost(tx) THEN (tx_hash(tx) :> tx.author) @@ @
                        ELSE @]

RECURSIVE SelectTxs(_, _, _)
SelectTxs(pending, pubkey, w) ==
    IF pending = <<>> \/ w.stopped THEN w
    ELSE SelectTxs(Tail(pending), pubkey, SelectTx(Head(pending), pubkey, w))

\* The template's timestamp: the clock, but at least int(median) + 1 of the
\* recent blocks.
TemplateTimestamp(c, now) ==
    LET recent == get_recent_timestamps(c, MEDIAN_TIME_BLOCK_COUNT)
    IN  IF recent # <<>> THEN Max(now, median2(recent) \div 2 + 1) ELSE now

\* Miner.create_block_template, the clock reading `now`.
create_block_template(c, pool, pubkey, now) ==
    LET h == height(c) + 1
        prev_hash == IF tip(c) # None THEN block_hash(tip(c)) ELSE ZeroHash
        coinbase == Coinbase(pubkey, block_reward(h), h)
        w == SelectTxs(get_pending(pool, NoLimit), pubkey,
                       TemplateStart(c, coinbase, pubkey))
    IN  Block(BlockHeader(PROTOCOL_VERSION, h, prev_hash,
                          TemplateTimestamp(c, now), pubkey,
                          compute_expected_difficulty(c, h), 0,
                          merkle_root(TxHashes(w.selected)),
                          state_root(w.state), Len(w.selected)),
              w.selected)

\* Miner.mine_block: [out, block, iterations]; out is the returned block or
\* None, block the template object as the call leaves it.
RECURSIVE MineFrom(_, _, _)
MineFrom(block, max_iterations, iterations) ==
    IF meets_difficulty(block)
    THEN [out |-> block, block |-> block, iterations |-> iterations]
    ELSE LET next == [block EXCEPT !.header.nonce = @ + 1]
         IN  IF max_iterations > 0 /\ iterations + 1 >= max_iterations
             THEN [out |-> None, block |-> next, iterations |-> iterations + 1]
             ELSE MineFrom(next, max_iterations, iterations + 1)

\* Mutant: the budget is not looked at.
mine_block_unbounded(block, max_iterations) == MineFrom(block, 0, 0)

mine_block(block, max_iterations) == MineFrom(block, max_iterations, 0)

(***************************************************************************)
(* Inputs: the transactions and blocks the operations are called with.     *)
(***************************************************************************)
MkPost(author, nonce, reply_to, gas_fee) ==
    sign_tx(Post(author, nonce, 0, 1, reply_to, gas_fee, EmptyBytes), author)

MkEndorse(author, nonce, target, amount, gas_fee) ==
    sign_tx(Endorse(author, nonce, target, amount, 0, gas_fee, EmptyBytes), author)

MkTransfer(sender, recipient, amount, nonce, gas_fee) ==
    sign_tx(Transfer(sender, recipient, amount, nonce, gas_fee, EmptyBytes), sender)

\* The post that replies and endorsements refer to.
RootPost == MkPost(1, 0, None, 1)
RootHash == tx_hash(RootPost)

\* Well-formed signed transactions.
GoodTxs ==
    {MkPost(a, n, None, 1) : a \in Signers, n \in {0, 1}}
    \cup {MkPost(2, 0, r, 1) : r \in {RootHash, UnknownHash}}
    \cup {MkEndorse(2, n, RootHash, amt, 1) : n \in {0, 1}, amt \in {0, 3}}
    \cup {MkEndorse(2, 0, UnknownHash, 3, 1), MkEndorse(1, 1, RootHash, 60, 1)}
    \cup {MkTransfer(1, 2, 10, n, 1) : n \in {0, 1}}
    \cup {MkTransfer(2, 3, amt, 0, 2) : amt \in {10, 60}}

\* Transactions that break one format rule each.
BadTxs ==
    { Post(1, 0, 0, 1, None, 1, EmptyBytes),
      sign_tx(Post(1, 0, 0, 1, None, 1, EmptyBytes), 2),
      sign_tx(Post(1, 0, 0, 0, None, 1, EmptyBytes), 1),
      sign_tx(Post(1, 0, 0, POST_BODY_LIMIT + 1, None, 1, EmptyBytes), 1),
      MkPost(1, 0, None, 0),
      MkPost(1, 0, ShortHash, 1),
      MkPost(ShortKey, 0, None, 1),
      MkEndorse(1, 0, RootHash, -1, 1),
      sign_tx(Endorse(1, 0, RootHash, 0, ENDORSE_MESSAGE_LIMIT + 1, 1,
                      EmptyBytes), 1),
      MkEndorse(1, 0, ShortHash, 0, 1),
      MkTransfer(1, 1, 10, 0, 1),
      MkTransfer(1, 2, 0, 0, 1),
      MkTransfer(1, 2, 10, -1, 1),
      MkTransfer(1, ShortKey, 10, 0, 1) }

\* The transactions that candidate blocks carry two at a time.
PairTxs ==
    { RootPost, MkPost(1, 1, None, 1), MkPost(2, 0, RootHash, 1),
      MkEndorse(2, 0, RootHash, 3, 1), MkEndorse(2, 1, RootHash, 0, 1),
      MkTransfer(1, 2, 10, 0, 1), MkTransfer(2, 3, 10, 0, 2) }

\* The transaction lists of candidate blocks (the coinbase is put in front).
TxLists ==
    {<<>>}
    \cup {<<t>> : t \in GoodTxs \cup BadTxs}
    \cup {<<t, u>> : t \in PairTxs, u \in PairTxs}

Miners == {1, 2}
\* Header timestamps tried, and the wall clock add_block is called at.
BlockTimes == {1, 2, 3, 200}
CurrentTime == 50

\* A block over `txs` for height h on predecessor hash prev, built as the
\* tests' build_block does: coinbase first, roots computed by applying the
\* list to a copy of c's state.
BuildBlockAt(c, h, prev, txs, miner, timestamp) ==
    LET all_txs == <<Coinbase(miner, block_reward(h), h)>> \o txs
        difficulty == IF h = height(c) + 1
                      THEN compute_expected_difficulty(c, h)
                      ELSE tip(c).header.difficulty
        draft == Block(BlockHeader(PROTOCOL_VERSION, h, prev, timestamp,
                                   miner, difficulty, 0,
                                   merkle_root(TxHashes(all_txs)),
                                   EMPTY_HASH, Len(all_txs)),
                       all_txs)
        working == _apply_block(c, draft).state
    IN  Grind([draft EXCEPT !.header.state_root = state_root(working)])

\* A block over `txs` on the tip of c.
BuildBlock(c, txs, miner, timestamp) ==
    BuildBlockAt(c, height(c) + 1, block_hash(tip(c)), txs, miner, timestamp)

\* Blocks that break one header or coinbase rule each, and blocks already
\* on the chain.
FaultyBlocks(c) ==
    LET ts == tip(c).header.timestamp + 1
        b == BuildBlock(c, <<>>, 1, ts)
        p == BuildBlock(c, <<RootPost>>, 1, ts)
        cb == b.transactions[1]
        with(txs) == [b EXCEPT !.transactions = txs, !.header.tx_count = Len(txs),
                               !.header.tx_merkle_root = merkle_root(TxHashes(txs))]
    IN  { [b EXCEPT !.header.version = 2],
          [b EXCEPT !.header.height = @ + 1],
          [b EXCEPT !.header.height = @ - 1],
          BuildBlockAt(c, height(c) + 2, block_hash(tip(c)), <<>>, 1, ts),
          BuildBlockAt(c, height(c), block_hash(tip(c)), <<>>, 1, ts),
          BuildBlockAt(c, height(c), tip(c).header.prev_hash, <<>>, 2, ts),
          [b EXCEPT !.header.prev_hash = ZeroHash],
          [b EXCEPT !.header.prev_hash = UnknownHash],
          [b EXCEPT !.header.prev_hash = c.main_chain[1]],
          [b EXCEPT !.header.difficulty = @ + 1],
          [b EXCEPT !.header.tx_count = 2],
          [b EXCEPT !.header.tx_merkle_root = EMPTY_HASH],
          [b EXCEPT !.header.state_root = EMPTY_HASH],
          [p EXCEPT !.header.state_root = b.header.state_root],
          [b EXCEPT !.header.miner = 2],
          [p EXCEPT !.header.version = 2,
                    !.transactions = Append(@, RootPost)],
          with(<<>>),
          with(<<RootPost>>),
          with(<<cb, cb>>),
          with(<<cb, Coinbase(2, cb.amount, cb.height)>>),
          with(<<Coinbase(1, 9999, cb.height)>>),
          with(<<Coinbase(1, cb.amount, cb.height + 1)>>),
          with(<<Coinbase(ShortKey, cb.amount, cb.height)>>),
          tip(c), get_block_by_height(c, 0) }

(***************************************************************************)
(* The P2P layer (jiji/net).  An address stands for a (host, port) pair.   *)
(* P2PServer.peers maps an address to a PeerConnection object, named here  *)
(* by its position in the sequence of the connection objects made so far.  *)
(***************************************************************************)
\* MAX_PEERS (50 in config.py) at the scale of the model's connections.
MAX_PEERS == 3
\* SYNC_BATCH_SIZE (50 in config.py) at the scale of the model's chains, so
\* that a chain is longer than one batch.
SYNC_BATCH_SIZE == 2
MAX_MESSAGE_SIZE == 4194304
HANDSHAKE_TIMEOUT == 10

\* No exception left the call; no handler ran.
NoError == "none"
NoHandler == "none"

\* bytes.hex() of a hash.
hex(h) == <<"hex", h>>

Message(msg_type, payload) == [msg_type |-> msg_type, payload |-> payload]

make_handshake(version, h, genesis_hash) ==
    Message("HANDSHAKE",
            [version |-> version, height |-> h, genesis_hash |-> genesis_hash])

make_peers_request == Message("PEERS_REQUEST", <<>>)

make_peers_response(addrs) == Message("PEERS_RESPONSE", [peers |-> addrs])

make_tx_announce(h) == Message("TX_ANNOUNCE", [tx_hash |-> h])

make_tx_response(tx_dict) == Message("TX_RESPONSE", [transaction |-> tx_dict])

make_block_announce(h, blk_height) ==
    Message("BLOCK_ANNOUNCE", [block_hash |-> h, height |-> blk_height])

\* bytes.fromhex, the inverse of hex
fromhex(x) == x[2]

make_tx_request(tx_hash_hex) ==
    Message("TX_REQUEST", [tx_hash |-> tx_hash_hex])

\* make_block_request(block_hash=...), the form the node itself sends
make_block_request(block_hash_hex) ==
    Message("BLOCK_REQUEST", [block_hash |-> block_hash_hex])

make_sync_response(blocks) ==
    Message("SYNC_RESPONSE", [blocks |-> blocks])

make_block_response(block_dict) ==
    Message("BLOCK_RESPONSE", [block |-> block_dict])

make_sync_request(start_height, end_height) ==
    Message("SYNC_REQUEST",
            [start_height |-> start_height, end_height |-> end_height])

\* P2PServer.__init__
P2PServer ==
    [peers |-> <<>>, known_addresses |-> {}, _syncing |-> FALSE,
     _seen_tx_hashes |-> {}, _seen_block_hashes |-> {}]

\* PeerConnection.__init__; `sent` is what was written to the stream,
\* `received` the number of receive() calls made on it, `loop` the position
\* of the connection's _peer_loop task: "none" (no task), "start" (created),
\* "recv" (in the while loop) or "done"; `broken` tells that the transport
\* has failed, so that the next write raises ConnectionError, and
\* `writer_closes` counts the calls of writer.close().
PeerConnection(address, inbound) ==
    [address |-> address, inbound |-> inbound, version |-> None,
     peer_height |-> -1, genesis_hash |-> None, handshake_done |-> FALSE,
     _closed |-> FALSE, sent |-> <<>>, received |-> 0, loop |-> "none",
     broken |-> FALSE, writer_closes |-> 0]

\* The node's objects taken together.
NodeOf(c, pool, server, cs) ==
    [chain |-> c, mempool |-> pool, p2p |-> server, conns |-> cs]

\* The connection objects held by the registry.
Registered(server) == {server.peers[a] : a \in DOMAIN server.peers}

\* Mutant: the writer is closed whether or not the connection was closed
\* before.
close_again(n, i) ==
    [n EXCEPT !.conns[i]._closed = TRUE, !.conns[i].writer_closes = @ + 1]

\* PeerConnection.close: a connection that is closed already is left as
\* it is; else the flag is set and the writer closed.
close(n, i) ==
    IF n.conns[i]._closed THEN n
    ELSE [n EXCEPT !.conns[i]._closed = TRUE,
                   !.conns[i].writer_closes = @ + 1]

\* PeerConnection.send: nothing is written to a closed connection; the
\* write to a broken transport raises ConnectionError, which closes it.
send(n, i, msg) ==
    IF n.conns[i]._closed THEN n
    ELSE IF n.conns[i].broken THEN close(n, i)
    ELSE [n EXCEPT !.conns[i].sent = Append(@, msg)]

\* PeerConnection.receive, given what the stream delivers: rx.kind is
\* "eof" (the stream ends) or "frame", with the length prefix rx.length and
\* the body: the JSON of rx.msg when rx.wellformed, else bytes that
\* decode_message cannot decode.  `read` counts the bytes taken from the
\* stream, `raised` names an exception that receive does not catch.
receive(n, i, rx) ==
    LET n1 == [n EXCEPT !.conns[i].received = @ + 1]
    IN  IF rx.kind = "eof"
        THEN [node |-> close(n1, i), msg |-> None, raised |-> NoError, read |-> 0]
        ELSE IF rx.length > MAX_MESSAGE_SIZE
        THEN [node |-> close(n1, i), msg |-> None, raised |-> NoError, read |-> 4]
        ELSE IF ~rx.wellformed
        THEN [node |-> n1, msg |-> None, raised |-> "ValueError",
              read |-> 4 + rx.length]
        ELSE [node |-> n1, msg |-> rx.msg, raised |-> NoError,
              read |-> 4 + rx.length]

\* asyncio.wait_for(peer.receive(), timeout=HANDSHAKE_TIMEOUT): rx.delay is
\* the time the peer takes to deliver; at the timeout receive is cancelled.
wait_for_receive(n, i, rx) ==
    IF rx.delay >= HANDSHAKE_TIMEOUT
    THEN [node |-> n, msg |-> None, raised |-> "TimeoutError", read |-> 0]
    ELSE receive(n, i, rx)

\* P2PServer._send_handshake
_send_handshake(n, i) ==
    LET genesis == get_block_by_height(n.chain, 0)
        genesis_hash == IF genesis # None THEN hex(block_hash(genesis))
                        ELSE ""
    IN  send(n, i, make_handshake(PROTOCOL_VERSION, height(n.chain),
                                  genesis_hash))

\* P2PServer._process_handshake
_process_handshake(n, i, msg) ==
    [n EXCEPT !.conns[i].version = msg.payload.version,
              !.conns[i].peer_height = msg.payload.height,
              !.conns[i].genesis_hash = msg.payload.genesis_hash]

\* P2PServer._perform_handshake
_perform_handshake(n, i, rx) ==
    LET r == wait_for_receive(_send_handshake(n, i), i, rx)
    IN  IF r.raised # NoError THEN [node |-> r.node, raised |-> r.raised]
        ELSE IF r.msg = None \/ r.msg.msg_type # "HANDSHAKE"
        THEN [node |-> r.node, raised |-> NoError]
        ELSE LET n2 == _process_handshake(r.node, i, r.msg)
                 our_genesis == get_block_by_height(n2.chain, 0)
             IN  IF /\ our_genesis # None
                    /\ n2.conns[i].genesis_hash # hex(block_hash(our_genesis))
                 THEN [node |-> n2, raised |-> NoError]
                 ELSE [node |-> [n2 EXCEPT !.conns[i].handshake_done = TRUE],
                       raised |-> NoError]

\* asyncio.create_task(self._peer_loop(peer))
create_peer_loop(n, i) == [n EXCEPT !.conns[i].loop = "start"]

\* self.peers[peer.address] = peer
register(n, i) ==
    [n EXCEPT !.p2p.peers = (n.conns[i].address :> i) @@ @]

\* P2PServer.connect_to_peer from its first await on: `opened` tells whether
\* open_connection gave a stream in time.  `out` is the value returned
\* (None when an exception leaves the call), `conn` the connection object
\* made (0 when none).
dial_handshake(n, address, opened, rx) ==
    IF ~opened
    THEN [node |-> n, out |-> FALSE, raised |-> NoError, conn |-> 0]
    ELSE LET i == Len(n.conns) + 1
             n1 == [n EXCEPT !.conns = Append(@, PeerConnection(address, FALSE))]
             h == _perform_handshake(n1, i, rx)
         IN  IF h.raised = "TimeoutError"
             THEN [node |-> h.node, out |-> FALSE, raised |-> NoError, conn |-> i]
             ELSE IF h.raised # NoError
             THEN [node |-> h.node, out |-> None, raised |-> h.raised,
                   conn |-> i]
             ELSE IF h.node.conns[i].handshake_done
             THEN [node |-> create_peer_loop(register(h.node, i), i),
                   out |-> TRUE, raised |-> NoError, conn |-> i]
             ELSE [node |-> close(h.node, i), out |-> FALSE, raised |-> NoError,
                   conn |-> i]

\* P2PServer.connect_to_peer with nothing else running during its awaits
connect_to_peer(n, address, opened, rx) ==
    IF address \in DOMAIN n.p2p.peers
    THEN [node |-> n, out |-> TRUE, raised |-> NoError, conn |-> 0]
    ELSE IF Cardinality(DOMAIN n.p2p.peers) >= MAX_PEERS
    THEN [node |-> n, out |-> FALSE, raised |-> NoError, conn |-> 0]
    ELSE dial_handshake(n, address, opened, rx)

\* P2PServer._handle_inbound from its first await on
inbound_handshake(n, address, rx) ==
    LET i == Len(n.conns) + 1
        n1 == [n EXCEPT !.conns = Append(@, PeerConnection(address, TRUE))]
        r == wait_for_receive(n1, i, rx)
    IN  IF r.raised = "TimeoutError"
        THEN [node |-> close(r.node, i), raised |-> NoError, conn |-> i]
        ELSE IF r.raised # NoError
        THEN [node |-> r.node, raised |-> r.raised, conn |-> i]
        ELSE IF r.msg = None \/ r.msg.msg_type # "HANDSHAKE"
        THEN [node |-> close(r.node, i), raised |-> NoError, conn |-> i]
        ELSE LET n2 == _send_handshake(
                           _process_handshake(r.node, i, r.msg), i)
                 n3 == [n2 EXCEPT !.conns[i].handshake_done = TRUE]
             IN  [node |-> create_peer_loop(register(n3, i), i),
                  raised |-> NoError, conn |-> i]

\* P2PServer._handle_inbound with nothing else running during its awaits
_handle_inbound(n, address, rx) ==
    IF Cardinality(DOMAIN n.p2p.peers) >= MAX_PEERS
    THEN [node |-> n, raised |-> NoError, conn |-> 0]
    ELSE inbound_handshake(n, address, rx)

\* _start_sync were it not to look at _syncing
_start_sync_ungated(n, i) ==
    send([n EXCEPT !.p2p._syncing = TRUE], i,
         make_sync_request(height(n.chain) + 1,
                           height(n.chain) + SYNC_BATCH_SIZE))

\* P2PServer._start_sync
_start_sync(n, i) ==
    IF n.p2p._syncing THEN n
    ELSE LET start == height(n.chain) + 1
         IN  send([n EXCEPT !.p2p._syncing = TRUE], i,
                  make_sync_request(start, start + SYNC_BATCH_SIZE - 1))

\* P2PServer.mark_sync_done
mark_sync_done(n) == [n EXCEPT !.p2p._syncing = FALSE]

\* The message goes to every registered connection but `exclude` (0: none).
SendToPeers(n, msg, exclude) ==
    [n EXCEPT !.conns =
        [j \in DOMAIN n.conns |->
            IF j \in Registered(n.p2p) /\ j # exclude /\ ~n.conns[j]._closed
            THEN send(n, j, msg).conns[j]
            ELSE n.conns[j]]]

\* broadcast_tx were it to announce to the source peer as well
broadcast_tx_to_all(n, tx_hash_hex, exclude) ==
    SendToPeers([n EXCEPT !.p2p._seen_tx_hashes = @ \cup {tx_hash_hex}],
                make_tx_announce(tx_hash_hex), 0)

\* P2PServer.broadcast_tx
broadcast_tx(n, tx_hash_hex, exclude) ==
    SendToPeers([n EXCEPT !.p2p._seen_tx_hashes = @ \cup {tx_hash_hex}],
                make_tx_announce(tx_hash_hex), exclude)

\* P2PServer.broadcast_block
broadcast_block(n, block_hash_hex, blk_height, exclude) ==
    SendToPeers([n EXCEPT !.p2p._seen_block_hashes = @ \cup {block_hash_hex}],
                make_block_announce(block_hash_hex, blk_height), exclude)

\* Node.handle_new_transaction; `raised` is the ValidationError of
\* Mempool.add, if any.
handle_new_transaction(n, tx, source_peer) ==
    LET r == MempoolAdd(n.mempool, n.chain, tx)
    IN  IF r.err # "ok" THEN [node |-> n, raised |-> r.err]
        ELSE [node |-> broadcast_tx([n EXCEPT !.mempool = r.pool],
                                    hex(tx_hash(tx)), source_peer),
              raised |-> NoError]

\* handle_new_block were it to leave the mempool as it is
handle_new_block_keeping(n, block, source_peer, now) ==
    LET ignored == \/ block_hash(block) \in DOMAIN n.chain.blocks
                   \/ block.header.height # height(n.chain) + 1
        err == IF ignored THEN "ignored"
               ELSE validate_block(block, n.chain, now)
    IN  IF err # "ok" THEN [node |-> n, err |-> err]
        ELSE [node |-> broadcast_block(
                           mark_sync_done(
                               [n EXCEPT !.chain = _apply_block(n.chain, block)]),
                           hex(block_hash(block)),
                           block.header.height, source_peer),
              err |-> "ok"]

\* Node.handle_new_block, at wall clock `now`; `err` is "ignored" for a
\* known or out-of-place block, else the outcome of add_block.
handle_new_block(n, block, source_peer, now) ==
    LET ignored == \/ block_hash(block) \in DOMAIN n.chain.blocks
                   \/ block.header.height # height(n.chain) + 1
        err == IF ignored THEN "ignored"
               ELSE validate_block(block, n.chain, now)
    IN  IF err # "ok" THEN [node |-> n, err |-> err]
        ELSE LET c1 == _apply_block(n.chain, block)
                 n1 == [n EXCEPT !.chain = c1,
                                 !.mempool = revalidate(
                                     remove_confirmed(n.mempool, block),
                                     c1).pool]
             IN  [node |-> broadcast_block(mark_sync_done(n1),
                                           hex(block_hash(block)),
                                           block.header.height, source_peer),
                  err |-> "ok"]

\* P2PServer._on_peers_request
_on_peers_request(n, i, msg) ==
    send(n, i, make_peers_response(
                   DOMAIN n.p2p.peers \ {n.conns[i].address}))

\* P2PServer._on_tx_response
_on_tx_response(n, i, msg) ==
    IF msg.payload.transaction = None THEN n
    ELSE handle_new_transaction(n, msg.payload.transaction, i).node

\* _on_block_response were it to hang up on a peer that sent a rejected
\* block
_on_block_response_dropping(n, i, msg, now) ==
    IF msg.payload.block = None THEN n
    ELSE IF handle_new_block(n, msg.payload.block, i, now).err # "ok"
    THEN close(n, i)
    ELSE handle_new_block(n, msg.payload.block, i, now).node

\* P2PServer._on_block_response, at wall clock `now`
_on_block_response(n, i, msg, now) ==
    IF msg.payload.block = None THEN n
    ELSE handle_new_block(n, msg.payload.block, i, now).node

\* P2PServer._on_peers_response
_on_peers_response(n, i, msg) ==
    [n EXCEPT !.p2p.known_addresses = @ \cup msg.payload.peers]

\* _on_tx_announce were it to ignore seen_tx_hashes
_on_tx_announce_forgetful(n, i, msg) ==
    IF \/ fromhex(msg.payload.tx_hash) \in PoolHashes(n.mempool)
       \/ fromhex(msg.payload.tx_hash) \in DOMAIN n.chain.tx_index
    THEN [n EXCEPT !.p2p._seen_tx_hashes = @ \cup {msg.payload.tx_hash}]
    ELSE send([n EXCEPT !.p2p._seen_tx_hashes = @ \cup {msg.payload.tx_hash}],
              i, make_tx_request(msg.payload.tx_hash))

\* P2PServer._on_tx_announce
_on_tx_announce(n, i, msg) ==
    LET tx_hash_hex == msg.payload.tx_hash
        n1 == [n EXCEPT !.p2p._seen_tx_hashes = @ \cup {tx_hash_hex}]
    IN  IF tx_hash_hex \in n.p2p._seen_tx_hashes THEN n
        ELSE IF \/ fromhex(tx_hash_hex) \in PoolHashes(n.mempool)
                \/ fromhex(tx_hash_hex) \in DOMAIN n.chain.tx_index
        THEN n1
        ELSE send(n1, i, make_tx_request(tx_hash_hex))

\* _on_tx_request were it to leave the request unanswered
_on_tx_request_silent(n, i, msg) == n

\* P2PServer._on_tx_request
_on_tx_request(n, i, msg) ==
    LET h == fromhex(msg.payload.tx_hash)
        pooled == get_by_hash(n.mempool, h)
        tx == IF pooled # None THEN pooled ELSE get_transaction(n.chain, h)
    IN  send(n, i, make_tx_response(tx))

\* _on_block_announce were it to ignore seen_block_hashes
_on_block_announce_forgetful(n, i, msg) ==
    LET block_hash_hex == msg.payload.block_hash
        n1 == [n EXCEPT !.p2p._seen_block_hashes = @ \cup {block_hash_hex}]
    IN  IF get_block_by_hash(n.chain, fromhex(block_hash_hex)) # None
        THEN n1
        ELSE IF msg.payload.height = height(n.chain) + 1
        THEN send(n1, i, make_block_request(block_hash_hex))
        ELSE IF msg.payload.height > height(n.chain) + 1
        THEN _start_sync(n1, i)
        ELSE n1

\* P2PServer._on_block_announce
_on_block_announce(n, i, msg) ==
    LET block_hash_hex == msg.payload.block_hash
        n1 == [n EXCEPT !.p2p._seen_block_hashes = @ \cup {block_hash_hex}]
    IN  IF block_hash_hex \in n.p2p._seen_block_hashes THEN n
        ELSE IF get_block_by_hash(n.chain, fromhex(block_hash_hex)) # None
        THEN n1
        ELSE IF msg.payload.height = height(n.chain) + 1
        THEN send(n1, i, make_block_request(block_hash_hex))
        ELSE IF msg.payload.height > height(n.chain) + 1
        THEN _start_sync(n1, i)
        ELSE n1

\* P2PServer._on_block_request: by hash when the payload has one, else by
\* height, else nothing is found
_on_block_request(n, i, msg) ==
    LET block == IF "block_hash" \in DOMAIN msg.payload
                 THEN get_block_by_hash(n.chain,
                                        fromhex(msg.payload.block_hash))
                 ELSE IF "height" \in DOMAIN msg.payload
                 THEN get_block_by_height(n.chain, msg.payload.height)
                 ELSE None
    IN  send(n, i, make_block_response(block))

\* The loop of P2PServer._on_sync_request: blocks at heights h..end, cut
\* at the first height the chain has no block for
RECURSIVE SyncBlocks(_, _, _)
SyncBlocks(c, h, end) ==
    IF h > end \/ get_block_by_height(c, h) = None THEN <<>>
    ELSE <<get_block_by_height(c, h)>> \o SyncBlocks(c, h + 1, end)

\* _on_sync_request were it to serve the whole range asked for
_on_sync_request_unbatched(n, i, msg) ==
    send(n, i, make_sync_response(SyncBlocks(n.chain,
                                             msg.payload.start_height,
                                             msg.payload.end_height)))

\* P2PServer._on_sync_request
_on_sync_request(n, i, msg) ==
    LET start == msg.payload.start_height
        end == Min(msg.payload.end_height, start + SYNC_BATCH_SIZE - 1)
    IN  send(n, i, make_sync_response(SyncBlocks(n.chain, start, end)))

\* The loop of P2PServer._on_sync_response: handle_new_block on each block
\* in list order (handle_new_block returns normally on a rejected block)
RECURSIVE ApplySyncBlocks(_, _, _, _)
ApplySyncBlocks(n, i, blocks, now) ==
    IF blocks = <<>> THEN n
    ELSE CHOOSE r \in {ApplySyncBlocks(n1, i, Tail(blocks), now) :
                          n1 \in {handle_new_block(n, Head(blocks),
                                                   i, now).node}} : TRUE

\* _on_sync_response after its loop, were it never to ask for the next
\* window
SyncFollowUp_once(n1, i, blocks) ==
    [n1 EXCEPT !.p2p._syncing = FALSE]

\* P2PServer._on_sync_response after its loop, n1 being the node the loop
\* leaves
SyncFollowUp(n1, i, blocks) ==
    LET last_height == blocks[Len(blocks)].header.height
    IN  IF Len(blocks) = SYNC_BATCH_SIZE
        THEN IF last_height < n1.conns[i].peer_height
             THEN send(n1, i, make_sync_request(
                                  last_height + 1,
                                  last_height + SYNC_BATCH_SIZE))
             ELSE n1
        ELSE [n1 EXCEPT !.p2p._syncing = FALSE]

\* P2PServer._on_sync_response
_on_sync_response(n, i, msg, now) ==
    SyncFollowUp(ApplySyncBlocks(n, i, msg.payload.blocks, now), i,
                 msg.payload.blocks)

\* P2PServer._handle_message: `handler` names the handler that ran
\* (NoHandler: the type has none, as for HANDSHAKE).
_handle_message(n, i, msg, now) ==
    IF msg.msg_type = "PEERS_REQUEST"
    THEN [node |-> _on_peers_request(n, i, msg),
          handler |-> "_on_peers_request"]
    ELSE IF msg.msg_type = "PEERS_RESPONSE"
    THEN [node |-> _on_peers_response(n, i, msg),
          handler |-> "_on_peers_response"]
    ELSE IF msg.msg_type = "TX_ANNOUNCE"
    THEN [node |-> _on_tx_announce(n, i, msg), handler |-> "_on_tx_announce"]
    ELSE IF msg.msg_type = "TX_REQUEST"
    THEN [node |-> _on_tx_request(n, i, msg), handler |-> "_on_tx_request"]
    ELSE IF msg.msg_type = "TX_RESPONSE"
    THEN [node |-> _on_tx_response(n, i, msg), handler |-> "_on_tx_response"]
    ELSE IF msg.msg_type = "BLOCK_ANNOUNCE"
    THEN [node |-> _on_block_announce(n, i, msg),
          handler |-> "_on_block_announce"]
    ELSE IF msg.msg_type = "BLOCK_REQUEST"
    THEN [node |-> _on_block_request(n, i, msg),
          handler |-> "_on_block_request"]
    ELSE IF msg.msg_type = "BLOCK_RESPONSE"
    THEN [node |-> _on_block_response(n, i, msg, now),
          handler |-> "_on_block_response"]
    ELSE IF msg.msg_type = "SYNC_REQUEST"
    THEN [node |-> _on_sync_request(n, i, msg),
          handler |-> "_on_sync_request"]
    ELSE IF msg.msg_type = "SYNC_RESPONSE"
    THEN [node |-> _on_sync_response(n, i, msg, now),
          handler |-> "_on_sync_response"]
    ELSE [node |-> n, handler |-> NoHandler]

\* P2PServer._peer_loop up to its while loop
_peer_loop_start(n, i) ==
    LET n1 == IF n.conns[i].peer_height > height(n.chain)
              THEN _start_sync(n, i) ELSE n
    IN  [n1 EXCEPT !.conns[i].loop = "recv"]

\* The finally clause of P2PServer._peer_loop: the entry at the peer's
\* address is dropped, the connection closed, the task ends.
_peer_loop_finally(n, i) ==
    LET address == n.conns[i].address
        n1 == [n EXCEPT !.p2p.peers =
                  [a \in DOMAIN @ \ {address} |-> @[a]]]
    IN  [close(n1, i) EXCEPT !.conns[i].loop = "done"]

\* Mutant: an oversize frame is dropped and the loop goes on.
_peer_loop_turn_lenient(n, i, rx, now) ==
    IF n.conns[i]._closed
    THEN [node |-> _peer_loop_finally(n, i), handler |-> NoHandler, read |-> 0]
    ELSE LET r == receive(n, i, rx)
         IN  IF r.raised # NoError
             THEN [node |-> _peer_loop_finally(r.node, i), handler |-> NoHandler,
                   read |-> r.read]
             ELSE IF r.msg = None /\ rx.kind = "frame"
             THEN [node |-> [r.node EXCEPT !.conns[i]._closed = FALSE],
                   handler |-> NoHandler, read |-> r.read]
             ELSE IF r.msg = None
             THEN [node |-> _peer_loop_finally(r.node, i), handler |-> NoHandler,
                   read |-> r.read]
             ELSE _handle_message(r.node, i, r.msg, now)
                      @@ [read |-> r.read]

\* One turn of the while loop of P2PServer._peer_loop, with the finally
\* clause when the loop is left.
_peer_loop_turn(n, i, rx, now) ==
    IF n.conns[i]._closed
    THEN [node |-> _peer_loop_finally(n, i), handler |-> NoHandler, read |-> 0]
    ELSE LET r == receive(n, i, rx)
         IN  IF r.raised # NoError \/ r.msg = None
             THEN [node |-> _peer_loop_finally(r.node, i), handler |-> NoHandler,
                   read |-> r.read]
             ELSE _handle_message(r.node, i, r.msg, now)
                      @@ [read |-> r.read]

(***************************************************************************)
(* The state machine                                                       *)
(***************************************************************************)
VARIABLES
    chain,      \* the Blockchain object
    mempool,    \* the Mempool object: [_txs, _max_size]
    p2p,        \* the P2PServer object: [peers, _syncing]
    conns,      \* the PeerConnection objects made so far, in order
    tasks,      \* the Node's _running flag and its asyncio tasks
    remote,     \* a second node, where one is modelled: [chain, mempool,
                \* p2p, conns]
    ret         \* the call that has just returned: [op, arg, err]

vars == <<chain, mempool, p2p, conns, tasks, remote, ret>>

NoCall == [op |-> "none", arg |-> None, err |-> "ok"]

\* Node.__init__: not running, no mining task, no listener; no
\* peer-exchange task, no connect_to_peer task and no _handle_inbound task
\* yet; stop not called (`closing` is the list of peers P2PServer.stop has
\* still to close); `template` is the block _async_mine is grinding while
\* the mining task is suspended in its sleep(0), None at any other time.
NoTasks ==
    [_running |-> FALSE, _mining_task |-> "none", _server |-> "none",
     peer_exchange_loop |-> "none", dials |-> {}, accepted |-> {},
     stop |-> "none", closing |-> <<>>, template |-> None]

Init ==
    /\ chain = EmptyChain
    /\ mempool = [_txs |-> <<>>, _max_size |-> MaxPoolSize]
    /\ p2p = P2PServer
    /\ conns = <<>>
    /\ tasks = NoTasks
    /\ remote = None
    /\ ret = NoCall

\* Mutant: the chain is not asked whether it has a block already.
InitializeGenesis_again(miner_pubkey, timestamp) ==
    /\ ret.op = "none"
    /\ chain' = initialize_genesis(chain, miner_pubkey, timestamp)
    /\ ret' = [op |-> "initialize_genesis", arg |-> miner_pubkey,
               err |-> "ok", out |-> GenesisBlock(miner_pubkey, timestamp)]
    /\ UNCHANGED mempool
    /\ UNCHANGED <<p2p, conns, tasks, remote>>

\* Blockchain.initialize_genesis(miner_pubkey, timestamp); `out` is the
\* block returned.
InitializeGenesis(miner_pubkey, timestamp) ==
    /\ ret.op = "none"
    /\ IF chain.main_chain # <<>>
       THEN /\ chain' = chain
            /\ ret' = [op |-> "initialize_genesis", arg |-> miner_pubkey,
                       err |-> "chain already initialized"]
       ELSE /\ chain' = initialize_genesis(chain, miner_pubkey, timestamp)
            /\ ret' = [op |-> "initialize_genesis", arg |-> miner_pubkey,
                       err |-> "ok",
                       out |-> GenesisBlock(miner_pubkey, timestamp)]
    /\ UNCHANGED mempool
    /\ UNCHANGED <<p2p, conns, tasks, remote>>

\* Mutant: validation runs on the chain's own state, not on a copy, so a
\* block rejected inside the transaction loop leaves its partial effects.
AddBlock_uncopied(block, current_time) ==
    /\ LET err == validate_block(block, chain, current_time)
           w == ValidateTxs(block.transactions, block.header, chain,
                            WorkingCopy(chain))
       IN  /\ chain' = IF err = "ok" THEN _apply_block(chain, block)
                       ELSE IF err = w.err THEN [chain EXCEPT !.state = w.state]
                       ELSE chain
           /\ ret' = [op |-> "add_block", arg |-> block, err |-> err]
    /\ UNCHANGED mempool
    /\ UNCHANGED <<p2p, conns, tasks, remote>>

\* Mutant: the accepted block is linked in and indexed, but the world state
\* is left as it was.
AddBlock_unapplied(block, current_time) ==
    /\ LET err == validate_block(block, chain, current_time)
       IN  /\ chain' = IF err = "ok"
                       THEN [_apply_block(chain, block)
                                EXCEPT !.state = chain.state]
                       ELSE chain
           /\ ret' = [op |-> "add_block", arg |-> block, err |-> err]
    /\ UNCHANGED mempool
    /\ UNCHANGED <<p2p, conns, tasks, remote>>

\* Blockchain.add_block(block, current_time)
AddBlock(block, current_time) ==
    /\ LET err == validate_block(block, chain, current_time)
       IN  /\ chain' = IF err = "ok" THEN _apply_block(chain, block) ELSE chain
           /\ ret' = [op |-> "add_block", arg |-> block, err |-> err]
    /\ UNCHANGED mempool
    /\ UNCHANGED <<p2p, conns, tasks, remote>>

\* The caller takes the outcome; the next call can be made.
Return ==
    /\ ret.op # "none"
    /\ ret' = NoCall
    /\ UNCHANGED <<chain, mempool>>
    /\ UNCHANGED <<p2p, conns, tasks, remote>>

\* A block is offered to a chain that has its genesis, up to MaxHeight:
\* one that carries transactions, stamped one above the tip; one of a
\* coinbase only, at each timestamp tried; or a faulty one.
AddBlockCall ==
    /\ ret.op = "none"
    /\ chain.main_chain # <<>>
    /\ height(chain) < MaxHeight
    /\ \/ \E txs \in TxLists \ {<<>>}, m \in Miners :
              AddBlock(BuildBlock(chain, txs, m, tip(chain).header.timestamp + 1),
                       CurrentTime)
       \/ \E m \in Miners, ts \in BlockTimes :
              AddBlock(BuildBlock(chain, <<>>, m, ts), CurrentTime)
       \/ \E b \in FaultyBlocks(chain) : AddBlock(b, CurrentTime)

Next ==
    \/ \E m \in Miners : InitializeGenesis(m, 1)
    \/ AddBlockCall
    \/ Return

Spec == Init /\ [][Next]_vars

(***************************************************************************)
(* The mempool beside a chain that grows: Mempool.add, remove,             *)
(* remove_confirmed and revalidate, called in any order.                   *)
(***************************************************************************)
\* The transactions offered to the pool: one post at three fees, transfers,
\* a follow-up nonce, an endorsement of RootPost, and three that add() must
\* refuse (a coinbase, a fee below the minimum, an unfunded transfer).
PoolTxs ==
    {MkPost(1, 0, None, f) : f \in {1, 2, 3}}
    \cup {MkTransfer(1, 2, 10, 0, f) : f \in {1, 2}}
    \cup { MkPost(1, 1, None, 2), MkEndorse(2, 0, RootHash, 3, 1),
           Coinbase(1, block_reward(1), 1), MkPost(1, 0, None, 0),
           MkTransfer(1, 2, 60, 0, 3) }

\* The transaction lists of the blocks that confirm beside the pool.
PoolBlockTxs == {<<>>, <<RootPost>>}

\* Mempool.add(tx)
Add(tx) ==
    /\ LET r == MempoolAdd(mempool, chain, tx)
       IN  /\ mempool' = r.pool
           /\ ret' = [op |-> "add", arg |-> tx, err |-> r.err,
                      size |-> Len(mempool._txs)]
    /\ UNCHANGED chain
    /\ UNCHANGED <<p2p, conns, tasks, remote>>

\* Mempool.remove(tx_hash)
Remove(h) ==
    /\ mempool' = MempoolRemove(mempool, h)
    /\ ret' = [op |-> "remove", arg |-> h, err |-> "ok",
               size |-> Len(mempool._txs)]
    /\ UNCHANGED chain
    /\ UNCHANGED <<p2p, conns, tasks, remote>>

\* Mempool.remove_confirmed(block)
RemoveConfirmed(block) ==
    /\ mempool' = remove_confirmed(mempool, block)
    /\ ret' = [op |-> "remove_confirmed", arg |-> block, err |-> "ok",
               size |-> Len(mempool._txs)]
    /\ UNCHANGED chain
    /\ UNCHANGED <<p2p, conns, tasks, remote>>

\* Mempool.revalidate(); the call returns the removed hashes.
Revalidate ==
    /\ LET r == revalidate(mempool, chain)
       IN  /\ mempool' = r.pool
           /\ ret' = [op |-> "revalidate", arg |-> r.removed, err |-> "ok",
                      size |-> Len(mempool._txs)]
    /\ UNCHANGED chain
    /\ UNCHANGED <<p2p, conns, tasks, remote>>

\* The limits get_pending is called with.
PendingLimits == {NoLimit} \cup 0..(MaxPoolSize + 1)

\* Mempool.get_pending(limit); the call returns the list.
GetPending(limit) ==
    /\ ret' = [op |-> "get_pending", arg |-> limit, err |-> "ok",
               size |-> Len(mempool._txs), out |-> get_pending(mempool, limit)]
    /\ UNCHANGED <<chain, mempool>>
    /\ UNCHANGED <<p2p, conns, tasks, remote>>

GetPendingCall == ret.op = "none" /\ \E limit \in PendingLimits : GetPending(limit)

AddCall == ret.op = "none" /\ \E tx \in PoolTxs : Add(tx)

RemoveCall ==
    /\ ret.op = "none"
    /\ \E h \in PoolHashes(mempool) \cup {UnknownHash} : Remove(h)

RemoveConfirmedCall ==
    /\ ret.op = "none"
    /\ \E bh \in DOMAIN chain.blocks : RemoveConfirmed(chain.blocks[bh])

RevalidateCall == ret.op = "none" /\ Revalidate

\* A block is confirmed on the chain the pool reads.
ConfirmCall ==
    /\ ret.op = "none"
    /\ chain.main_chain # <<>>
    /\ height(chain) < MaxHeight
    /\ \E txs \in PoolBlockTxs :
          AddBlock(BuildBlock(chain, txs, 2, tip(chain).header.timestamp + 1),
                   CurrentTime)

NextMempool ==
    \/ InitializeGenesis(1, 1)
    \/ ConfirmCall
    \/ AddCall
    \/ RemoveCall
    \/ RemoveConfirmedCall
    \/ RevalidateCall
    \/ GetPendingCall
    \/ Return

SpecMempool == Init /\ [][NextMempool]_vars

(***************************************************************************)
(* The miner beside the pool and the blocks of peers: Miner.mine_next,     *)
(* one turn of Node._mining_loop, Node.handle_new_block.  The wall clock   *)
(* reads CurrentTime throughout: all of it happens within one second.      *)
(***************************************************************************)
\* The key the node mines with.
MinerKey == 1

\* The nonce budget of one call of mine_block in Node._async_mine (1000 in
\* node.py), at the scale of the model's hash width.
ChunkSize == 2

\* _async_mine: mine_block in chunks until it returns a block.
RECURSIVE AsyncMine(_)
AsyncMine(template) ==
    LET m == mine_block(template, ChunkSize)
    IN  IF m.out # None THEN m.out ELSE AsyncMine(m.block)

\* Mutant: the pool is purged of the block's transactions and not
\* revalidated.
PurgePool_unrevalidated(pool, block, c) == remove_confirmed(pool, block)

\* The pool after a block was added: remove_confirmed, then revalidate.
PurgePool(pool, block, c) == revalidate(remove_confirmed(pool, block), c).pool

\* Miner.create_block_template()
CreateBlockTemplate ==
    /\ ret' = [op |-> "create_block_template",
               arg |-> create_block_template(chain, mempool, MinerKey,
                                             CurrentTime),
               err |-> "ok", size |-> Len(mempool._txs)]
    /\ UNCHANGED <<chain, mempool>>
    /\ UNCHANGED <<p2p, conns, tasks, remote>>

\* Miner.mine_next() with no current_time: add_block is called with the
\* template's timestamp + 1; a ValidationError leaves the pool alone.
MineNext ==
    LET template == create_block_template(chain, mempool, MinerKey,
                                          CurrentTime)
        block == mine_block(template, 0).out
        err == validate_block(block, chain, template.header.timestamp + 1)
        c1 == IF err = "ok" THEN _apply_block(chain, block) ELSE chain
    IN  /\ chain' = c1
        /\ mempool' = IF err = "ok" THEN PurgePool(mempool, block, c1)
                      ELSE mempool
        /\ ret' = [op |-> "mine_next", arg |-> block, err |-> err,
                   size |-> Len(mempool._txs)]
        /\ UNCHANGED <<p2p, conns, tasks, remote>>

\* One turn of Node._mining_loop: template, _async_mine, add_block at the
\* wall clock; a ValidationError is logged.
MiningLoop ==
    LET template == create_block_template(chain, mempool, MinerKey,
                                          CurrentTime)
        block == AsyncMine(template)
        err == validate_block(block, chain, CurrentTime)
        c1 == IF err = "ok" THEN _apply_block(chain, block) ELSE chain
        n == NodeOf(chain, mempool, p2p, conns)
        n1 == IF err = "ok"
              THEN broadcast_block(n, hex(block_hash(block)),
                                   block.header.height, 0)
              ELSE n
    IN  /\ chain' = c1
        /\ mempool' = IF err = "ok" THEN PurgePool(mempool, block, c1)
                      ELSE mempool
        /\ p2p' = n1.p2p
        /\ conns' = n1.conns
        /\ UNCHANGED <<tasks, remote>>
        /\ ret' = [op |-> "mining_loop", arg |-> block, err |-> err,
                   size |-> Len(mempool._txs)]

\* Node.handle_new_block, as far as chain and pool go: a block that is
\* known or not at tip + 1 is ignored, a rejected one logged, an accepted
\* one purges the pool.
HandleNewBlock(block) ==
    LET r == handle_new_block(NodeOf(chain, mempool, p2p, conns), block, 0,
                              CurrentTime)
    IN  /\ chain' = r.node.chain
        /\ mempool' = r.node.mempool
        /\ p2p' = r.node.p2p
        /\ conns' = r.node.conns
        /\ UNCHANGED <<tasks, remote>>
        /\ ret' = [op |-> "handle_new_block", arg |-> block, err |-> r.err,
                   size |-> Len(mempool._txs)]

\* The blocks peers send: empty ones mined by key 2 on the tip, stamped
\* just after the tip or as far ahead of the clock as validation allows,
\* and the tip again.
PeerBlocks(c) ==
    {BuildBlock(c, <<>>, 2, ts) :
        ts \in {tip(c).header.timestamp + 1,
                CurrentTime + MAX_FUTURE_TIMESTAMP}}
    \cup {tip(c)}

CreateBlockTemplateCall ==
    ret.op = "none" /\ chain.main_chain # <<>> /\ CreateBlockTemplate

MineNextCall ==
    /\ ret.op = "none"
    /\ chain.main_chain # <<>>
    /\ height(chain) <= MaxHeight
    /\ MineNext

MiningLoopCall ==
    /\ ret.op = "none"
    /\ chain.main_chain # <<>>
    /\ height(chain) <= MaxHeight
    /\ MiningLoop

HandleNewBlockCall ==
    /\ ret.op = "none"
    /\ chain.main_chain # <<>>
    /\ height(chain) < MaxHeight
    /\ \E b \in PeerBlocks(chain) : HandleNewBlock(b)

NextMiner ==
    \/ InitializeGenesis(MinerKey, 1)
    \/ AddCall
    \/ ConfirmCall
    \/ CreateBlockTemplateCall
    \/ MineNextCall
    \/ MiningLoopCall
    \/ HandleNewBlockCall
    \/ Return

SpecMiner == Init /\ [][NextMiner]_vars

(***************************************************************************)
(* Miner.mine_block on its own, over blocks of several difficulties and    *)
(* starting nonces and over several budgets.                               *)
(***************************************************************************)
\* The largest starting nonce and the largest budget tried.
MaxNonce == 5
MaxIterations == 3

\* The difficulties of the blocks handed to mine_block.
MineDifficulties == {1, 2, 3, 4, 8, 64}

MineInputs ==
    {[GenesisBlock(MinerKey, 1) EXCEPT !.header.difficulty = d,
                                       !.header.nonce = n] :
        d \in MineDifficulties, n \in 0..MaxNonce}

\* Miner.mine_block(block, max_iterations): the call returns `out`; the
\* block object is left as `block`.
MineBlock(block, max_iterations) ==
    /\ LET m == mine_block(block, max_iterations)
       IN  ret' = [op |-> "mine_block", arg |-> block, err |-> "ok",
                   max_iterations |-> max_iterations,
                   out |-> m.out, block |-> m.block]
    /\ UNCHANGED <<chain, mempool>>
    /\ UNCHANGED <<p2p, conns, tasks, remote>>

MineBlockCall ==
    /\ ret.op = "none"
    /\ \E block \in MineInputs, max_iterations \in 0..MaxIterations :
          MineBlock(block, max_iterations)

NextMine ==
    \/ MineBlockCall
    \/ Return

SpecMine == Init /\ [][NextMine]_vars

(***************************************************************************)
(* The P2P server of a started node: outbound dials, inbound connections   *)
(* and the receive loops of the registered peers, fed by peers that send   *)
(* anything.                                                               *)
(***************************************************************************)
\* The connection objects made, and the receive() calls made on all of
\* them together.
MaxConns == 2
MaxFrames == 3

RECURSIVE TotalReceived(_)
TotalReceived(cs) ==
    IF cs = <<>> THEN 0 ELSE Head(cs).received + TotalReceived(Tail(cs))

\* The addresses of the peers.
Addrs == {1, 2}

\* The genesis block of another network.
ForeignGenesis == GenesisBlock(2, 1)

Eof == [kind |-> "eof", length |-> 0, wellformed |-> FALSE, msg |-> None, delay |-> 0]

Frame(msg, len, delay) == [kind |-> "frame", length |-> len, wellformed |-> TRUE, msg |-> msg, delay |-> delay]

Garbage(len) == [kind |-> "frame", length |-> len, wellformed |-> FALSE, msg |-> None, delay |-> 0]

\* The HANDSHAKE messages of peers: on the local genesis block, at the
\* genesis height or above the local height, or on another genesis block.
Handshakes(c) ==
    {make_handshake(PROTOCOL_VERSION, h,
                    hex(block_hash(get_block_by_height(c, 0)))) :
        h \in {0, MaxHeight + 1}}
    \cup {make_handshake(PROTOCOL_VERSION, 0, hex(block_hash(ForeignGenesis)))}

\* What a peer may deliver while its handshake is awaited.
HandshakeRx(c) ==
    {Frame(m, 64, 0) : m \in Handshakes(c) \cup {make_peers_request}}
    \cup {Frame(make_handshake(PROTOCOL_VERSION, 0,
                               hex(block_hash(get_block_by_height(c, 0)))),
                64, HANDSHAKE_TIMEOUT + 1)}
    \cup {Eof, Garbage(64), Garbage(MAX_MESSAGE_SIZE + 1)}

\* The transactions peers send.
NetTxs == {RootPost}

\* The blocks peers send: one that extends the chain.
NetBlocks(c) == {BuildBlock(c, <<>>, 2, tip(c).header.timestamp + 1)}

\* What a registered peer may deliver to the receive loop.
LoopRx(c) ==
    {Frame(make_peers_request, 64, 0)}
    \cup {Frame(make_tx_response(tx), 64, 0) : tx \in NetTxs}
    \cup {Frame(make_block_response(b), len, 0) :
             b \in NetBlocks(c), len \in {MAX_MESSAGE_SIZE, MAX_MESSAGE_SIZE + 1}}
    \cup {Eof, Garbage(64)}

\* The objects of node n, taken over as the next state.
Takes(n) ==
    /\ chain' = n.chain
    /\ mempool' = n.mempool
    /\ p2p' = n.p2p
    /\ conns' = n.conns

\* The node after a call that leaves its tasks and the other node alone.
Becomes(n) ==
    /\ Takes(n)
    /\ UNCHANGED <<tasks, remote>>

\* P2PServer.connect_to_peer(host, port)
ConnectToPeer(address, opened, rx) ==
    LET r == connect_to_peer(NodeOf(chain, mempool, p2p, conns), address,
                             opened, rx)
    IN  /\ Becomes(r.node)
        /\ ret' = [op |-> "connect_to_peer", arg |-> rx, err |-> "ok",
                   address |-> address, opened |-> opened, out |-> r.out,
                   raised |-> r.raised, conn |-> r.conn]

\* P2PServer._handle_inbound(reader, writer)
HandleInbound(address, rx) ==
    LET r == _handle_inbound(NodeOf(chain, mempool, p2p, conns), address, rx)
    IN  /\ Becomes(r.node)
        /\ ret' = [op |-> "_handle_inbound", arg |-> rx, err |-> "ok",
                   address |-> address, raised |-> r.raised, conn |-> r.conn]

\* The _peer_loop task of connection i begins.
PeerLoopStart(i) ==
    /\ Becomes(_peer_loop_start(NodeOf(chain, mempool, p2p, conns), i))
    /\ ret' = [op |-> "_peer_loop_start", arg |-> None, err |-> "ok",
               conn |-> i]

\* The _peer_loop task of connection i takes one turn of its loop.
PeerLoopTurn(i, rx) ==
    \E r \in {_peer_loop_turn(NodeOf(chain, mempool, p2p, conns), i, rx,
                              CurrentTime)} :
        /\ Becomes(r.node)
        /\ ret' = [op |-> "_peer_loop", arg |-> rx, err |-> "ok", conn |-> i,
                   handler |-> r.handler, read |-> r.read]

\* Node.start: the chain gets its genesis block before the servers start.
StartNode ==
    /\ chain.main_chain = <<>>
    /\ InitializeGenesis(MinerKey, 1)

\* The calls below follow one another; none waits for Return.
ConnectToPeerCall ==
    /\ chain.main_chain # <<>>
    /\ Len(conns) < MaxConns
    /\ \E address \in Addrs, opened \in BOOLEAN, rx \in HandshakeRx(chain) :
          ConnectToPeer(address, opened, rx)

HandleInboundCall ==
    /\ chain.main_chain # <<>>
    /\ Len(conns) < MaxConns
    /\ \E address \in Addrs, rx \in HandshakeRx(chain) :
          HandleInbound(address, rx)

PeerLoopStartCall ==
    /\ \E i \in DOMAIN conns :
          /\ conns[i].loop = "start"
          /\ PeerLoopStart(i)

PeerLoopTurnCall ==
    /\ height(chain) < MaxHeight
    /\ \E i \in DOMAIN conns :
          /\ conns[i].loop = "recv"
          /\ TotalReceived(conns) < MaxFrames
          /\ \E rx \in LoopRx(chain) : PeerLoopTurn(i, rx)

NextNet ==
    \/ StartNode
    \/ ConnectToPeerCall
    \/ HandleInboundCall
    \/ PeerLoopStartCall
    \/ PeerLoopTurnCall

SpecNet == Init /\ [][NextNet]_vars

\* ------------------------------------------------------------------------
\* The message handlers of a node with registered peers
\* ------------------------------------------------------------------------

\* Receive-loop turns taken after the handshakes.
MaxGossipTurns == 2

\* The height of the chain the peers hold.
PeerHeight == MaxHeight + 1

\* The transaction the peers' block 1 confirms.
PeerBlockTxs(h) == IF h = 1 THEN <<RootPost>> ELSE <<>>

\* Chain c after one more block over txs (bound variables hold values, so
\* the chain and the block are each computed once).
Extend(c, txs) ==
    CHOOSE r \in {_apply_block(c, b) :
                     b \in {BuildBlock(c, txs, 2,
                                       tip(c).header.timestamp + 1)}} : TRUE

\* The peers' chain up to height k: the genesis block of Node.start and
\* one block per height on top of it.
RECURSIVE PeerChainAt(_)
PeerChainAt(k) ==
    IF k = 0 THEN initialize_genesis(EmptyChain, MinerKey, 1)
    ELSE CHOOSE r \in {Extend(c, PeerBlockTxs(k)) :
                          c \in {PeerChainAt(k - 1)}} : TRUE

PeerChain == PeerChainAt(PeerHeight)

PeerChainBlocks == [h \in 0..PeerHeight |-> get_block_by_height(PeerChain, h)]

PeerBlock(h) == PeerChainBlocks[h]

\* A block for the next height of c that validation rejects (its
\* prev_hash is not the tip).
BadBlock(c) ==
    BuildBlockAt(c, height(c) + 1, EMPTY_HASH, <<>>, 2,
                 tip(c).header.timestamp + 1)

\* An unsigned transaction, rejected by the format check.
UnsignedPost == Post(1, 0, 0, 1, None, 1, EmptyBytes)

\* The transactions offered to the node.
GossipTxs == {RootPost, MkTransfer(1, 2, 10, 0, 1), UnsignedPost}

\* The peers' blocks at heights s, s+1, ... (k of them, cut at PeerHeight)
RECURSIVE Run(_, _)
Run(s, k) ==
    IF k <= 0 \/ s > PeerHeight THEN <<>>
    ELSE <<PeerBlock(s)>> \o Run(s + 1, k - 1)

\* The block lists of SYNC_RESPONSE messages: runs of the peers' chain,
\* alone or with a rejected block before or after them.
SyncLists(c) ==
    UNION {{Run(s, k), <<BadBlock(c)>> \o Run(s, k - 1),
            Run(s, k - 1) \o <<BadBlock(c)>>} :
              s \in {1, height(c) + 1}, k \in 0..SYNC_BATCH_SIZE}

\* The transactions peers announce and ask for.
AnnouncedTxs == {RootPost, MkTransfer(1, 2, 10, 0, 1)}

\* What a registered peer may deliver to the receive loop of a node on
\* chain c.
GossipRx(c) ==
    {Frame(m, 64, 0) : m \in
        {make_peers_request, make_peers_response({3})}
        \cup {make_tx_announce(hex(tx_hash(tx))) : tx \in AnnouncedTxs}
        \cup {make_tx_request(hex(tx_hash(tx))) : tx \in AnnouncedTxs}
        \cup {make_tx_response(tx) : tx \in GossipTxs \cup {None}}
        \cup {make_block_announce(hex(block_hash(PeerBlock(x))), x) :
                 x \in 1..PeerHeight}
        \cup {make_block_announce(hex(block_hash(PeerBlock(PeerHeight))), h) :
                 h \in {0, height(c) + 1}}
        \cup {make_block_request(hex(block_hash(PeerBlock(h)))) :
                 h \in {0, PeerHeight}}
        \cup {Message("BLOCK_REQUEST", [height |-> h]) : h \in {0, PeerHeight}}
        \cup {make_block_response(b) :
                 b \in {PeerBlock(x) : x \in 1..PeerHeight}
                       \cup {BadBlock(c), None}}
        \cup {make_sync_request(start, PeerHeight + 1) :
                 start \in 0..PeerHeight + 1}
        \cup {make_sync_request(0, 0), make_sync_request(1, 0)}
        \cup {make_sync_response(l) : l \in SyncLists(c)}}
    \cup {Eof}

\* A started node on the first k blocks of the peers' chain, after three
\* inbound connections: peer 1 reported height h1, peer 2 height 0, and
\* the third hung up before its handshake; both receive loops have begun.
GossipStart(k, h1) ==
    LET c == PeerChainAt(k)
        hs(h) == Frame(make_handshake(PROTOCOL_VERSION, h,
                           hex(block_hash(get_block_by_height(c, 0)))),
                       64, 0)
        n0 == NodeOf(c, [_txs |-> <<>>, _max_size |-> MaxPoolSize],
                     P2PServer, <<>>)
        n1 == _handle_inbound(n0, 1, hs(h1)).node
        n2 == _handle_inbound(n1, 2, hs(0)).node
        n3 == _handle_inbound(n2, 3, Eof).node
    IN  _peer_loop_start(_peer_loop_start(n3, 1), 2)

InitGossip ==
    \E k \in {0, 1}, h1 \in {0, PeerHeight} :
        /\ chain = GossipStart(k, h1).chain
        /\ mempool = GossipStart(k, h1).mempool
        /\ p2p = GossipStart(k, h1).p2p
        /\ conns = GossipStart(k, h1).conns
        /\ tasks = NoTasks
        /\ remote = None
        /\ ret = NoCall

\* RPCServer._submit_transaction: Node.handle_new_transaction without a
\* source peer; `raised` is what reaches the RPC caller.
SubmitTransaction(tx) ==
    LET r == handle_new_transaction(NodeOf(chain, mempool, p2p, conns), tx, 0)
    IN  /\ Becomes(r.node)
        /\ ret' = [op |-> "submit_transaction", arg |-> tx, err |-> "ok",
                   raised |-> r.raised]

SubmitTransactionCall ==
    /\ TotalReceived(conns) - Len(conns) < MaxGossipTurns
    /\ \E tx \in GossipTxs : SubmitTransaction(tx)

GossipTurnCall ==
    /\ TotalReceived(conns) - Len(conns) < MaxGossipTurns
    /\ \E i \in DOMAIN conns :
          /\ conns[i].loop = "recv"
          /\ \E rx \in GossipRx(chain) : PeerLoopTurn(i, rx)

NextGossip ==
    \/ SubmitTransactionCall
    \/ GossipTurnCall

SpecGossip == InitGossip /\ [][NextGossip]_vars

\* ------------------------------------------------------------------------
\* Node.start, the background tasks, and Node.stop
\* ------------------------------------------------------------------------

\* Messages one connection is sent before the peer-exchange loop is left
\* out of the model.
MaxSent == 2

\* Node.start(): genesis, listener, one connect_to_peer task per bootstrap
\* peer, the peer-exchange task, the mining task if the node mines.
Start(mine, bootstrap_peers) ==
    /\ chain.main_chain = <<>>
    /\ tasks.stop = "none"
    /\ chain' = initialize_genesis(chain, MinerKey, 1)
    /\ tasks' = [tasks EXCEPT !._running = TRUE,
                              !._server = "open",
                              !.dials = bootstrap_peers,
                              !.peer_exchange_loop = "running",
                              !._mining_task = IF mine THEN "running"
                                               ELSE "none"]
    /\ ret' = [op |-> "start", arg |-> mine, err |-> "ok"]
    /\ UNCHANGED <<mempool, p2p, conns, remote>>

\* The listener accepts a connection: a _handle_inbound task begins and
\* waits for the handshake.
Accept(address) ==
    /\ tasks._server = "open"
    /\ address \notin tasks.accepted
    /\ tasks' = [tasks EXCEPT !.accepted = @ \cup {address}]
    /\ ret' = [op |-> "accept", arg |-> address, err |-> "ok"]
    /\ UNCHANGED <<chain, mempool, p2p, conns, remote>>

\* A _handle_inbound task gets its first frame (or the timeout) and ends.
InboundFinish(address, rx) ==
    /\ address \in tasks.accepted
    /\ \E r \in {_handle_inbound(NodeOf(chain, mempool, p2p, conns),
                                 address, rx)} :
          /\ Takes(r.node)
          /\ ret' = [op |-> "_handle_inbound", arg |-> rx, err |-> "ok",
                     address |-> address, raised |-> r.raised,
                     conn |-> r.conn]
    /\ tasks' = [tasks EXCEPT !.accepted = @ \ {address}]
    /\ UNCHANGED remote

\* A connect_to_peer task ends.
DialFinish(address, opened, rx) ==
    /\ address \in tasks.dials
    /\ \E r \in {connect_to_peer(NodeOf(chain, mempool, p2p, conns), address,
                                 opened, rx)} :
          /\ Takes(r.node)
          /\ ret' = [op |-> "connect_to_peer", arg |-> rx, err |-> "ok",
                     address |-> address, opened |-> opened, out |-> r.out,
                     raised |-> r.raised, conn |-> r.conn]
    /\ tasks' = [tasks EXCEPT !.dials = @ \ {address}]
    /\ UNCHANGED remote

\* One round of P2PServer.peer_exchange_loop after its sleep: `node` is
\* the node after the PEERS_REQUESTs, `dialed` the addresses a
\* connect_to_peer task is created for.
peer_exchange_loop(n) ==
    [node |-> SendToPeers(n, make_peers_request, 0),
     dialed |-> {a \in n.p2p.known_addresses :
                    /\ a \notin DOMAIN n.p2p.peers
                    /\ Cardinality(DOMAIN n.p2p.peers) < MAX_PEERS}]

PeerExchange ==
    /\ tasks.peer_exchange_loop = "running"
    /\ \E r \in {peer_exchange_loop(NodeOf(chain, mempool, p2p, conns))} :
          /\ Takes(r.node)
          /\ tasks' = [tasks EXCEPT !.dials = @ \cup r.dialed]
          /\ ret' = [op |-> "peer_exchange_loop", arg |-> r.dialed,
                     err |-> "ok"]
    /\ UNCHANGED remote

\* One round of Node._mining_loop while its task lives.
Mine ==
    /\ tasks._mining_task = "running"
    /\ tasks._running
    /\ MiningLoop

\* Node.stop() up to the loop of P2PServer.stop: _running is cleared, the
\* mining task is cancelled and awaited, the listener is closed, and the
\* registered peers are listed.
StopBegin ==
    /\ tasks._running
    /\ tasks.stop = "none"
    /\ tasks' = [tasks EXCEPT
                    !._running = FALSE,
                    !._mining_task = IF @ = "running" THEN "done" ELSE @,
                    !._server = "closed",
                    !.stop = "closing",
                    !.closing = SortedSeq(Registered(p2p))]
    /\ ret' = [op |-> "stop", arg |-> "begin", err |-> "ok"]
    /\ UNCHANGED <<chain, mempool, p2p, conns, remote>>

\* P2PServer.stop awaits the close of the next listed peer.
StopClosePeer ==
    /\ tasks.stop = "closing"
    /\ tasks.closing # <<>>
    /\ Takes(close(NodeOf(chain, mempool, p2p, conns), Head(tasks.closing)))
    /\ tasks' = [tasks EXCEPT !.closing = Tail(@)]
    /\ ret' = [op |-> "stop", arg |-> "close", err |-> "ok"]
    /\ UNCHANGED remote

\* P2PServer.stop clears the registry; Node.stop returns.
StopFinish ==
    /\ tasks.stop = "closing"
    /\ tasks.closing = <<>>
    /\ p2p' = [p2p EXCEPT !.peers = <<>>]
    /\ tasks' = [tasks EXCEPT !.stop = "done"]
    /\ ret' = [op |-> "stop", arg |-> "done", err |-> "ok"]
    /\ UNCHANGED <<chain, mempool, conns, remote>>

\* What a peer delivers while its handshake is awaited.
StopHandshakeRx(c) ==
    {Frame(make_handshake(PROTOCOL_VERSION, 0,
                          hex(block_hash(get_block_by_height(c, 0)))),
           64, 0),
     Eof}

\* What a registered peer delivers to the receive loop.
StopLoopRx == {Frame(make_peers_response({2}), 64, 0), Eof}

StartCall == \E mine \in BOOLEAN, bootstrap_peers \in {{}, {1}} :
                 Start(mine, bootstrap_peers)

AcceptCall ==
    /\ Len(conns) + Cardinality(tasks.accepted) < MaxConns
    /\ \E address \in {3} : Accept(address)

InboundFinishCall ==
    /\ chain.main_chain # <<>>
    /\ Len(conns) < MaxConns
    /\ \E address \in tasks.accepted, rx \in StopHandshakeRx(chain) :
          InboundFinish(address, rx)

DialFinishCall ==
    /\ chain.main_chain # <<>>
    /\ Len(conns) < MaxConns
    /\ \E address \in tasks.dials, opened \in BOOLEAN,
          rx \in StopHandshakeRx(chain) :
          DialFinish(address, opened, rx)

PeerExchangeCall ==
    /\ \A i \in DOMAIN conns : Len(conns[i].sent) < MaxSent
    /\ PeerExchange

MineCall ==
    /\ height(chain) < MaxHeight
    /\ \A i \in DOMAIN conns : Len(conns[i].sent) < MaxSent
    /\ Mine

StopLoopStartCall ==
    \E i \in DOMAIN conns :
        /\ conns[i].loop = "start"
        /\ PeerLoopStart(i)

StopLoopTurnCall ==
    \E i \in DOMAIN conns :
        /\ conns[i].loop = "recv"
        /\ TotalReceived(conns) < MaxFrames
        /\ \E rx \in StopLoopRx : PeerLoopTurn(i, rx)

NextStop ==
    \/ StartCall
    \/ AcceptCall
    \/ InboundFinishCall
    \/ DialFinishCall
    \/ PeerExchangeCall
    \/ MineCall
    \/ StopLoopStartCall
    \/ StopLoopTurnCall
    \/ StopBegin
    \/ StopClosePeer
    \/ StopFinish

SpecStop == Init /\ [][NextStop]_vars

\* ------------------------------------------------------------------------
\* Two nodes, A (chain, mempool, p2p, conns) and B (remote), joined by one
\* connection that B dials. What one end has sent is what the other end
\* reads, in order and without loss: the next frame for a node is the
\* entry of the other node's `sent` at the position of its own `received`.
\* ------------------------------------------------------------------------

\* The node A as a record.
NodeA == NodeOf(chain, mempool, p2p, conns)

\* The transactions submitted to A: one valid on the genesis state, one
\* valid once the peers' block 1 is confirmed.
SubmittedTxs == {RootPost, MkPost(1, 1, None, 1)}

\* A started node on chain c with nothing else yet.
Started(c) ==
    NodeOf(c, [_txs |-> <<>>, _max_size |-> MaxPoolSize], P2PServer, <<>>)

\* A is started on the genesis block or holds the whole of the peers'
\* chain; B is started with A's genesis block and does not mine.
InitPair ==
    /\ \E k \in {0, PeerHeight} :
          /\ chain = PeerChainAt(k)
          /\ mempool = Started(PeerChainAt(k)).mempool
    /\ p2p = P2PServer
    /\ conns = <<>>
    /\ tasks = NoTasks
    /\ remote = Started(PeerChainAt(0))
    /\ ret = NoCall

\* The HANDSHAKE node n sends (P2PServer._send_handshake).
HandshakeOf(n) ==
    make_handshake(PROTOCOL_VERSION, height(n.chain),
                   hex(block_hash(get_block_by_height(n.chain, 0))))

\* B's connect_to_peer(A) and A's _handle_inbound for that connection.
Dial ==
    /\ conns = <<>>
    /\ remote.conns = <<>>
    /\ \E a \in {_handle_inbound(NodeA, 2,
                                 Frame(HandshakeOf(remote), 64, 0)).node} :
          /\ Takes(a)
          /\ remote' = connect_to_peer(remote, 1, TRUE,
                                       Frame(a.conns[1].sent[1], 64, 0)).node
    /\ ret' = [op |-> "dial", arg |-> None, err |-> "ok"]
    /\ UNCHANGED tasks

\* A frame from node `from` waits to be read by node `to`.
Pending(from, to) ==
    /\ to.conns # <<>>
    /\ from.conns # <<>>
    /\ to.conns[1].loop = "recv"
    /\ Len(from.conns[1].sent) > to.conns[1].received

NextFrame(from, to) ==
    Frame(from.conns[1].sent[to.conns[1].received + 1], 64, 0)

\* The _peer_loop task of A begins, or takes one turn on the next frame
\* from B.
LoopStartA ==
    /\ conns # <<>>
    /\ conns[1].loop = "start"
    /\ Takes(_peer_loop_start(NodeA, 1))
    /\ ret' = [op |-> "_peer_loop_start", arg |-> None, err |-> "ok",
               conn |-> 1]
    /\ UNCHANGED <<tasks, remote>>

TurnA ==
    /\ Pending(remote, NodeA)
    /\ \E r \in {_peer_loop_turn(NodeA, 1, NextFrame(remote, NodeA),
                                 CurrentTime)} :
          /\ Takes(r.node)
          /\ ret' = [op |-> "_peer_loop", arg |-> NextFrame(remote, NodeA),
                     err |-> "ok", conn |-> 1, handler |-> r.handler,
                     read |-> r.read]
    /\ UNCHANGED <<tasks, remote>>

\* The same for the _peer_loop task of B.
LoopStartB ==
    /\ remote.conns # <<>>
    /\ remote.conns[1].loop = "start"
    /\ remote' = _peer_loop_start(remote, 1)
    /\ ret' = [op |-> "_peer_loop_start", arg |-> None, err |-> "ok",
               conn |-> 1]
    /\ UNCHANGED <<chain, mempool, p2p, conns, tasks>>

TurnB ==
    /\ Pending(NodeA, remote)
    /\ \E r \in {_peer_loop_turn(remote, 1, NextFrame(NodeA, remote),
                                 CurrentTime)} :
          /\ remote' = r.node
          /\ ret' = [op |-> "_peer_loop", arg |-> NextFrame(NodeA, remote),
                     err |-> "ok", conn |-> 1, handler |-> r.handler,
                     read |-> r.read]
    /\ UNCHANGED <<chain, mempool, p2p, conns, tasks>>

\* A transaction is submitted to A over RPC.
SubmitA == \E tx \in SubmittedTxs : SubmitTransaction(tx)

NextPair ==
    \/ Dial
    \/ LoopStartA
    \/ TurnA
    \/ LoopStartB
    \/ TurnB
    \/ SubmitA

\* WF_vars(TurnA) and WF_vars(TurnB), with ENABLED <<TurnA>>_vars and
\* ENABLED <<TurnB>>_vars written out: a turn is possible exactly when a
\* frame is pending for a loop that waits in receive, and every turn moves
\* the read position.
FairTurnA == []<>(~Pending(remote, NodeA)) \/ []<><<TurnA>>_vars

FairTurnB == []<>(~Pending(NodeA, remote)) \/ []<><<TurnB>>_vars

\* The event loop of each node runs a task that can take a step: a
\* receive loop that has been created begins, and one that has a frame to
\* read is resumed.
SpecPair ==
    /\ InitPair
    /\ [][NextPair]_vars
    /\ WF_vars(LoopStartA)
    /\ WF_vars(LoopStartB)
    /\ FairTurnA
    /\ FairTurnB

(***************************************************************************)
(* Properties of the chain                                                 *)
(***************************************************************************)
\* The call that has just returned is an add_block, accepted or rejected.
AddBlockReturned(r) == r.op = "add_block"
Accepted(r) == r.op = "add_block" /\ r.err = "ok"
Rejected(r) == r.op = "add_block" /\ r.err # "ok"

Bal(st, k) == IF k \in DOMAIN st THEN st[k].balance ELSE 0
NonceOf(st, k) == IF k \in DOMAIN st THEN st[k].nonce ELSE 0

RECURSIVE SumBal(_, _)
SumBal(st, ks) ==
    IF ks = {} THEN 0
    ELSE LET k == CHOOSE x \in ks : TRUE
         IN  st[k].balance + SumBal(st, ks \ {k})

TotalBalance(st) == SumBal(st, DOMAIN st)

\* The block of the main chain at index i (height i - 1).
MainBlock(c, i) == c.blocks[c.main_chain[i]]

\* Signed transactions of signer k among the first n of txs.
SignedBy(txs, k, n) ==
    Cardinality({i \in 1..n : IsSigned(txs[i]) /\ signer_key(txs[i]) = k})

\* The post hash a transaction refers to, or None.
RefOf(tx) ==
    IF IsPost(tx) THEN tx.reply_to
    ELSE IF IsEndorse(tx) THEN tx.target
    ELSE None

\* Hashes of the posts among the first n of txs.
PostsBefore(txs, n) == {tx_hash(txs[i]) : i \in {j \in 1..n : IsPost(txs[j])}}

\* What transaction tx adds to the balance of k when the block's miner is
\* `miner` and tips are paid to the authors recorded in `authors`.
TxDelta(tx, k, miner, authors) ==
    LET to(who, amt) == IF who = k THEN amt ELSE 0
    IN  IF IsCoinbase(tx) THEN to(tx.recipient, tx.amount)
        ELSE IF IsPost(tx)
             THEN to(miner, tx.gas_fee) - to(tx.author, tx.gas_fee)
        ELSE IF IsEndorse(tx)
             THEN to(miner, tx.gas_fee) - to(tx.author, tx.gas_fee + tx.amount)
                  + to(AuthorOf(authors, tx.target), tx.amount)
        ELSE to(miner, tx.gas_fee) + to(tx.recipient, tx.amount)
             - to(tx.sender, tx.amount + tx.gas_fee)

RECURSIVE BlockDelta(_, _, _, _)
BlockDelta(txs, k, miner, authors) ==
    IF txs = <<>> THEN 0
    ELSE TxDelta(Head(txs), k, miner, authors)
         + BlockDelta(Tail(txs), k, miner, authors)

\* C1: when add_block raises ValidationError, for whatever reason, blocks,
\* main_chain, state, tx_index, known_posts and post_authors are exactly
\* what they were before the call.
C1_RejectedBlockMutatesNothing ==
    [][Rejected(ret') => chain' = chain]_vars

\* A block was rejected inside the transaction loop, after an earlier
\* transaction of the same block had been applied to the working state.
C1_Witness ==
    /\ Rejected(ret)
    /\ Len(ret.arg.transactions) = 3
    /\ ret.err = "endorsement target is not a known post"
    /\ height(chain) = 1

\* C2: on the main chain the block at index i has height i, its prev_hash
\* is the hash of the block at i - 1, and the genesis block's prev_hash is
\* 32 zero bytes.
C2_ChainLinked ==
    \A i \in 1..Len(chain.main_chain) :
        /\ chain.main_chain[i] \in DOMAIN chain.blocks
        /\ MainBlock(chain, i).header.height = i - 1
        /\ i >= 2 => MainBlock(chain, i).header.prev_hash
                        = block_hash(MainBlock(chain, i - 1))
        /\ i = 1 => MainBlock(chain, i).header.prev_hash = ZeroHash

\* The chain has grown by accepted blocks to the model's highest height.
C2_Witness ==
    /\ Accepted(ret)
    /\ height(chain) = MaxHeight
    /\ height(chain) >= 2

\* C3: add_block accepts a block only at height tip + 1 and on the hash of
\* the tip; an accepted block raises the height by exactly one and becomes
\* the tip; a block already on the chain is rejected.
C3_OnlyExtendsTip ==
    [][AddBlockReturned(ret') =>
        /\ Accepted(ret') =>
              /\ ret'.arg.header.height = height(chain) + 1
              /\ ret'.arg.header.prev_hash = block_hash(tip(chain))
              /\ height(chain') = height(chain) + 1
              /\ tip(chain') = ret'.arg
              /\ chain'.main_chain
                    = Append(chain.main_chain, block_hash(ret'.arg))
        /\ block_hash(ret'.arg) \in DOMAIN chain.blocks => Rejected(ret')
        /\ Rejected(ret') => height(chain') = height(chain)
      ]_vars

\* A block that is already on the chain below the tip was offered again and
\* rejected.
C3_Witness ==
    /\ Rejected(ret)
    /\ height(chain) >= 1
    /\ ret.arg = get_block_by_height(chain, 0)

\* C4: every balance is >= 0 in every state; across an accepted block each
\* signer's nonce grows by the number of its signed transactions in the
\* block, a coinbase changes no nonce, and no nonce decreases.
C4_BalancesAndNonces ==
    [][/\ \A k \in DOMAIN chain'.state : chain'.state[k].balance >= 0
       /\ Accepted(ret') =>
            \A k \in DOMAIN chain'.state :
                NonceOf(chain'.state, k)
                    = NonceOf(chain.state, k)
                      + SignedBy(ret'.arg.transactions, k,
                                 Len(ret'.arg.transactions))
       /\ \A k \in DOMAIN chain.state :
            /\ k \in DOMAIN chain'.state
            /\ chain'.state[k].nonce >= chain.state[k].nonce
      ]_vars

\* An accepted block carried two signed transactions of one signer, who was
\* also its miner.
C4_Witness ==
    /\ Accepted(ret)
    /\ Len(ret.arg.transactions) = 3
    /\ signer_key(ret.arg.transactions[2]) = signer_key(ret.arg.transactions[3])
    /\ chain.state[signer_key(ret.arg.transactions[2])].nonce = 2

\* C5: across an accepted block the sum of all balances grows by exactly
\* block_reward(height), and every account moves by what the block's
\* transactions say: fees to the miner, amounts to the recipient, tips to
\* the author of the endorsed post.
C5_BalanceConservation ==
    [][Accepted(ret') =>
        LET b == ret'.arg
        IN  /\ TotalBalance(chain'.state)
                 = TotalBalance(chain.state) + block_reward(b.header.height)
            /\ b.transactions[1].amount = block_reward(b.header.height)
            /\ \A k \in DOMAIN chain'.state :
                 Bal(chain'.state, k)
                    = Bal(chain.state, k)
                      + BlockDelta(b.transactions, k, b.header.miner,
                                   chain'.post_authors)
      ]_vars

\* An accepted block carried an endorsement with a tip.
C5_Witness ==
    /\ Accepted(ret)
    /\ \E i \in 1..Len(ret.arg.transactions) :
          /\ IsEndorse(ret.arg.transactions[i])
          /\ ret.arg.transactions[i].amount > 0

\* Position i of txs repeats a content-address: one of an earlier position
\* of the list, or one already in the chain's tx_index.
Repeats(txs, c, i) ==
    \/ tx_hash(txs[i]) \in DOMAIN c.tx_index
    \/ \E j \in 1..(i - 1) : tx_hash(txs[j]) = tx_hash(txs[i])

CarriesDuplicate(block, c) ==
    \E i \in 1..Len(block.transactions) : Repeats(block.transactions, c, i)

FirstRepeat(txs, c) ==
    CHOOSE i \in 1..Len(txs) :
        Repeats(txs, c, i) /\ \A j \in 1..(i - 1) : ~Repeats(txs, c, j)

\* The reasons validate_block gives before it enters the transaction loop.
BeforeLoopReasons ==
    { "unsupported version", "height mismatch", "prev_hash does not match tip",
      "timestamp not above median of recent blocks",
      "timestamp too far in the future", "difficulty mismatch",
      "block does not meet difficulty target",
      "tx_count does not match transaction list", "block has no transactions",
      "first transaction must be coinbase",
      "coinbase recipient must be 32 bytes", "coinbase height mismatch",
      "coinbase amount != expected",
      "coinbase recipient must match block miner",
      "only one coinbase per block" }

\* Every content-address of the main chain occurs in one block, once.
ConfirmedOnce(c) ==
    \A i, j \in 1..Len(c.main_chain) :
        \A m \in 1..Len(MainBlock(c, i).transactions) :
            \A n \in 1..Len(MainBlock(c, j).transactions) :
                tx_hash(MainBlock(c, i).transactions[m])
                    = tx_hash(MainBlock(c, j).transactions[n])
                => (i = j /\ m = n)

\* C6, as stated: every block that carries a content-address twice, or one
\* already in tx_index, is rejected with the 'duplicate transaction' error.
C6_AlwaysDuplicateError ==
    [][(AddBlockReturned(ret') /\ CarriesDuplicate(ret'.arg, chain))
        => ret'.err = "duplicate transaction"]_vars

\* C6, amended: every block that carries a content-address twice, or one
\* already in tx_index, is rejected; the error is 'duplicate transaction'
\* unless a check before the transaction loop, or a transaction placed
\* before the first repeated one, fails first.  Over the main chain each
\* content-address occurs in at most one block and at most once in it.
C6_NoDoubleConfirmation ==
    [][/\ chain' # chain => ConfirmedOnce(chain')
       /\ (AddBlockReturned(ret') /\ CarriesDuplicate(ret'.arg, chain)) =>
            LET b == ret'.arg
                i == FirstRepeat(b.transactions, chain)
                w == ValidateTxs(SubSeq(b.transactions, 1, i - 1), b.header,
                                 chain, WorkingCopy(chain))
            IN  /\ Rejected(ret')
                /\ \/ ret'.err = "duplicate transaction"
                   \/ ret'.err \in BeforeLoopReasons
                   \/ w.err # "ok" /\ ret'.err = w.err
      ]_vars

\* A block whose header and coinbase are in order was rejected as carrying
\* a transaction that an earlier block had confirmed.
C6_Witness ==
    /\ Rejected(ret)
    /\ ret.err = "duplicate transaction"
    /\ \E i \in 2..Len(ret.arg.transactions) :
          tx_hash(ret.arg.transactions[i]) \in DOMAIN chain.tx_index

\* Every tx_index[h] of chain c is a key of blocks, on main_chain, and that
\* block contains a transaction of content-address h, which
\* get_transaction(h) returns; and every transaction of every main-chain
\* block is in tx_index.
TxIndexSound(c) ==
    /\ \A h \in DOMAIN c.tx_index :
          /\ c.tx_index[h] \in DOMAIN c.blocks
          /\ \E i \in 1..Len(c.main_chain) :
                c.main_chain[i] = c.tx_index[h]
          /\ \E n \in 1..Len(c.blocks[c.tx_index[h]].transactions) :
                tx_hash(c.blocks[c.tx_index[h]].transactions[n]) = h
          /\ get_transaction(c, h) # None
          /\ tx_hash(get_transaction(c, h)) = h
    /\ \A i \in 1..Len(c.main_chain) :
          \A n \in 1..Len(MainBlock(c, i).transactions) :
              tx_hash(MainBlock(c, i).transactions[n]) \in DOMAIN c.tx_index

\* C7: every tx_index[h] is a key of blocks, on main_chain, and that block
\* contains a transaction of content-address h, which get_transaction(h)
\* returns; and every transaction of every main-chain block is in tx_index.
\* The chain starts empty, so the index is sound in every state when every
\* step that changes the chain leaves it sound.
C7_TxIndexSound ==
    [][chain' # chain => TxIndexSound(chain')]_vars

\* Signed transactions of two blocks above genesis are indexed.
C7_Witness ==
    /\ height(chain) = 2
    /\ Len(MainBlock(chain, 2).transactions) >= 2
    /\ Len(MainBlock(chain, 3).transactions) >= 2
    /\ Cardinality(DOMAIN chain.tx_index) >= 5

\* The nonces of the signed transactions of txs run on from the nonces of
\* state st, signer by signer, in list order.
ConsecutiveNonces(txs, st) ==
    \A i \in 1..Len(txs) :
        IsSigned(txs[i]) =>
            txs[i].nonce = NonceOf(st, signer_key(txs[i]))
                           + SignedBy(txs, signer_key(txs[i]), i - 1)

\* Every post reference in txs is to a post confirmed in c or placed
\* earlier in txs.
ReferencesResolve(txs, c) ==
    \A i \in 1..Len(txs) :
        RefOf(txs[i]) # None =>
            RefOf(txs[i]) \in c.known_posts \cup PostsBefore(txs, i - 1)

\* The authors of the posts of txs, over those recorded in `authors`.
RECURSIVE WithBlockAuthors(_, _)
WithBlockAuthors(txs, authors) ==
    IF txs = <<>> THEN authors
    ELSE WithBlockAuthors(Tail(txs),
            IF IsPost(Head(txs))
            THEN (tx_hash(Head(txs)) :> Head(txs).author) @@ authors
            ELSE authors)

\* C8: within a block each transaction is validated against the effects of
\* the earlier ones: an accepted block's nonces run consecutively per
\* signer and its references are to confirmed or earlier posts; a block
\* with consecutive nonces is never refused for a nonce, one whose
\* references are to confirmed or earlier posts never for a reference; a
\* reference to a later, unconfirmed post is rejected; tips to a post of the
\* same block reach that post's author.
C8_IntraBlockOrder ==
    [][AddBlockReturned(ret') =>
        LET b == ret'.arg
            txs == b.transactions
        IN  /\ Accepted(ret') =>
                 /\ ConsecutiveNonces(txs, chain.state)
                 /\ ReferencesResolve(txs, chain)
                 /\ \A k \in DOMAIN chain'.state :
                      Bal(chain'.state, k)
                        = Bal(chain.state, k)
                          + BlockDelta(txs, k, b.header.miner,
                                       WithBlockAuthors(txs, chain.post_authors))
            /\ ConsecutiveNonces(txs, chain.state)
                 => ret'.err # "nonce mismatch"
            /\ ReferencesResolve(txs, chain)
                 => ret'.err \notin {"endorsement target is not a known post",
                                     "reply_to references unknown post"}
            /\ ~ReferencesResolve(txs, chain) => Rejected(ret')
      ]_vars

\* An accepted block carried a post and, after it, an endorsement of that
\* post with a tip, by another signer.
C8_Witness ==
    /\ Accepted(ret)
    /\ Len(ret.arg.transactions) = 3
    /\ IsPost(ret.arg.transactions[2])
    /\ IsEndorse(ret.arg.transactions[3])
    /\ ret.arg.transactions[3].target = tx_hash(ret.arg.transactions[2])
    /\ ret.arg.transactions[3].amount > 0

\* A block that endorsed a post placed after it was rejected.
C8_WitnessLater ==
    /\ Rejected(ret)
    /\ Len(ret.arg.transactions) = 3
    /\ IsEndorse(ret.arg.transactions[2])
    /\ IsPost(ret.arg.transactions[3])
    /\ ret.arg.transactions[2].target = tx_hash(ret.arg.transactions[3])

(***************************************************************************)
(* Properties of the mempool                                               *)
(***************************************************************************)
PoolSize(pool) == Len(pool._txs)

PoolFees(pool) == {_get_gas_fee(pool._txs[i]) : i \in 1..Len(pool._txs)}

MinFee(pool) == CHOOSE f \in PoolFees(pool) : \A g \in PoolFees(pool) : f <= g

\* The transaction of the pool with content-address h.
PoolTx(pool, h) ==
    pool._txs[CHOOSE i \in 1..Len(pool._txs) : tx_hash(pool._txs[i]) = h]

\* add() finds nothing wrong with tx short of the pool being full.
Admissible(tx, pool, c) ==
    /\ ~IsCoinbase(tx)
    /\ tx_hash(tx) \notin PoolHashes(pool)
    /\ tx_hash(tx) \notin DOMAIN c.tx_index
    /\ validate_transaction_format(tx, 0) = "ok"
    /\ validate_transaction_state(tx, c.state, c.known_posts) = "ok"

\* C9: after any sequence of add, remove, remove_confirmed and revalidate
\* the pool holds at most max_size transactions, none of them a Coinbase
\* (and each under its own content-address once).
C9_PoolBounded ==
    /\ PoolSize(mempool) <= mempool._max_size
    /\ \A i \in 1..PoolSize(mempool) : ~IsCoinbase(mempool._txs[i])
    /\ Cardinality(PoolHashes(mempool)) = PoolSize(mempool)

\* A coinbase was offered to a full pool and refused.
C9_Witness ==
    /\ ret.op = "add"
    /\ IsCoinbase(ret.arg)
    /\ ret.err # "ok"
    /\ PoolSize(mempool) = mempool._max_size

\* C10: add() of an admissible transaction to a full pool: with a fee above
\* the pool's minimum, one entry of that minimum fee leaves, the new one
\* enters and every other entry stays; otherwise the call fails with 'fee
\* too low' and the pool is unchanged.
C10_EvictionWhenFull ==
    [][(/\ ret'.op = "add"
        /\ PoolSize(mempool) >= mempool._max_size
        /\ Admissible(ret'.arg, mempool, chain)) =>
         IF _get_gas_fee(ret'.arg) > MinFee(mempool)
         THEN /\ ret'.err = "ok"
              /\ PoolSize(mempool') = PoolSize(mempool)
              /\ PoolHashes(mempool') \ PoolHashes(mempool)
                    = {tx_hash(ret'.arg)}
              /\ \E h \in PoolHashes(mempool) :
                    /\ PoolHashes(mempool) \ PoolHashes(mempool') = {h}
                    /\ _get_gas_fee(PoolTx(mempool, h)) = MinFee(mempool)
         ELSE /\ ret'.err = "mempool full and fee too low for eviction"
              /\ mempool' = mempool
      ]_vars

\* A full pool took a transaction in: an entry was evicted for it.
C10_Witness ==
    /\ ret.op = "add"
    /\ ret.err = "ok"
    /\ ret.size = mempool._max_size
    /\ PoolSize(mempool) = mempool._max_size
    /\ tx_hash(ret.arg) \in PoolHashes(mempool)

\* A full pool refused a transaction whose fee equals its minimum.
C10_WitnessTooLow ==
    /\ ret.op = "add"
    /\ ret.err = "mempool full and fee too low for eviction"
    /\ _get_gas_fee(ret.arg) = MinFee(mempool)

\* C11: Mempool.add fails and leaves the pool as it was for a Coinbase, a
\* hash already in the pool, a hash in chain.tx_index, and a transaction
\* failing format or state validation; a rejected transaction evicts
\* nothing, even from a full pool.
C11_RejectedAddKeepsPool ==
    [][ret'.op = "add" =>
        /\ ~Admissible(ret'.arg, mempool, chain) => ret'.err # "ok"
        /\ ret'.err # "ok" => mempool' = mempool
        /\ IsCoinbase(ret'.arg)
             => ret'.err = "coinbase transactions cannot be added to mempool"
        /\ (~IsCoinbase(ret'.arg) /\ tx_hash(ret'.arg) \in PoolHashes(mempool))
             => ret'.err = "transaction already in mempool"
        /\ (/\ ~IsCoinbase(ret'.arg)
            /\ tx_hash(ret'.arg) \notin PoolHashes(mempool)
            /\ tx_hash(ret'.arg) \in DOMAIN chain.tx_index)
             => ret'.err = "transaction already confirmed"
      ]_vars

\* A full pool refused a transaction whose nonce is not the account's.
C11_Witness ==
    /\ ret.op = "add"
    /\ ret.err = "nonce mismatch"
    /\ ret.size = mempool._max_size
    /\ PoolSize(mempool) = mempool._max_size

\* s is t with some entries left out, the others in t's order.
RECURSIVE IsSubSeq(_, _)
IsSubSeq(s, t) ==
    IF s = <<>> THEN TRUE
    ELSE IF t = <<>> THEN FALSE
    ELSE IF Head(s) = Head(t) THEN IsSubSeq(Tail(s), Tail(t))
    ELSE IsSubSeq(s, Tail(t))

SeqRange(s) == {s[i] : i \in 1..Len(s)}

\* C12: revalidate removes exactly the pending transactions that fail state
\* validation against the current chain state, returns exactly their
\* hashes, and keeps the others; remove_confirmed(block) removes exactly
\* the pending transactions whose content-address is in the block.
C12_PurgeExact ==
    [][/\ ret'.op = "revalidate" =>
            /\ SeqRange(mempool'._txs)
                 = {t \in SeqRange(mempool._txs) :
                       validate_transaction_state(t, chain.state,
                                                  chain.known_posts) = "ok"}
            /\ IsSubSeq(mempool'._txs, mempool._txs)
            /\ SeqRange(ret'.arg)
                 = PoolHashes(mempool) \ PoolHashes(mempool')
            /\ Cardinality(SeqRange(ret'.arg)) = Len(ret'.arg)
       /\ ret'.op = "remove_confirmed" =>
            /\ SeqRange(mempool'._txs)
                 = {t \in SeqRange(mempool._txs) :
                       tx_hash(t) \notin SeqRange(TxHashes(ret'.arg.transactions))}
            /\ IsSubSeq(mempool'._txs, mempool._txs)
      ]_vars

\* revalidate dropped two stale entries at once.
C12_Witness ==
    /\ ret.op = "revalidate"
    /\ Len(ret.arg) = 2
    /\ PoolSize(mempool) = 0

\* revalidate dropped one entry and kept another.
C12_WitnessKept ==
    /\ ret.op = "revalidate"
    /\ Len(ret.arg) >= 1
    /\ PoolSize(mempool) >= 1

\* remove_confirmed dropped an entry that the block carries, kept another.
C12_WitnessConfirmed ==
    /\ ret.op = "remove_confirmed"
    /\ ret.size > PoolSize(mempool)
    /\ PoolSize(mempool) >= 1

\* The position of transaction t in the pool's insertion order.
PoolPos(pool, t) == CHOOSE i \in 1..Len(pool._txs) : pool._txs[i] = t

\* t comes before u in fee priority: a higher fee, or the same fee and
\* inserted earlier.
Outranks(pool, t, u) ==
    \/ _get_gas_fee(t) > _get_gas_fee(u)
    \/ /\ _get_gas_fee(t) = _get_gas_fee(u)
       /\ PoolPos(pool, t) < PoolPos(pool, u)

\* C13: get_pending returns the pending transactions by non-increasing
\* gas_fee, equal fees in insertion order; with limit k, the first k of
\* that order; the pool is not changed.
C13_PendingOrder ==
    [][ret'.op = "get_pending" =>
        LET r == ret'.out
            k == ret'.arg
        IN  /\ mempool' = mempool
            /\ chain' = chain
            /\ Len(r) = IF k = NoLimit THEN PoolSize(mempool)
                        ELSE Min(k, PoolSize(mempool))
            /\ SeqRange(r) \subseteq SeqRange(mempool._txs)
            /\ \A i, j \in 1..Len(r) :
                  i < j => /\ _get_gas_fee(r[i]) >= _get_gas_fee(r[j])
                           /\ Outranks(mempool, r[i], r[j])
            /\ \A t \in SeqRange(mempool._txs) \ SeqRange(r) :
                  \A i \in 1..Len(r) : Outranks(mempool, r[i], t)
      ]_vars

\* get_pending returned two transactions of one fee, the one inserted
\* first in front.
C13_Witness ==
    /\ ret.op = "get_pending"
    /\ Len(ret.out) >= 2
    /\ _get_gas_fee(ret.out[1]) = _get_gas_fee(ret.out[2])
    /\ PoolPos(mempool, ret.out[1]) < PoolPos(mempool, ret.out[2])

\* get_pending with a limit below the pool's size returned the dearest
\* transaction, which was not the first inserted.
C13_WitnessLimit ==
    /\ ret.op = "get_pending"
    /\ ret.arg = 1
    /\ PoolSize(mempool) = 2
    /\ Len(ret.out) = 1
    /\ PoolPos(mempool, ret.out[1]) = 2

(***************************************************************************)
(* Properties of the miner                                                 *)
(***************************************************************************)
\* C14: the block built by create_block_template and solved by mine_block
\* is accepted by add_block on the same chain, as mine_next and the mining
\* loop call it.
C14_MinedBlockAccepted ==
    [][ret'.op \in {"mine_next", "mining_loop"} => ret'.err = "ok"]_vars

\* The chain after the first n of txs were applied as part of a block of
\* `miner` (its state and known posts are what position n + 1 is
\* validated against).
AfterPrefix(c, txs, n, miner) == ApplyTxs(c, SubSeq(txs, 1, n), None, miner)

\* The entries of txs from position 2 on that outrank t in the pool.
RECURSIVE Outranking(_, _, _)
Outranking(pool, txs, t) ==
    IF txs = <<>> THEN <<>>
    ELSE IF Outranks(pool, Head(txs), t)
         THEN <<Head(txs)>> \o Outranking(pool, Tail(txs), t)
         ELSE Outranking(pool, Tail(txs), t)

C15_WitnessOrder ==
    /\ ret.op = "create_block_template"
    /\ Len(ret.arg.transactions) = 3
    /\ _get_gas_fee(ret.arg.transactions[2]) > _get_gas_fee(ret.arg.transactions[3])
    /\ PoolPos(mempool, ret.arg.transactions[2]) > PoolPos(mempool, ret.arg.transactions[3])

\* Block b with its nonce raised by k.
Bumped(b, k) == [b EXCEPT !.header.nonce = @ + k]

\* The increments a returned mine_block call made to the nonce.
Increments(r) == r.block.header.nonce - r.arg.header.nonce

\* C16, as stated: mine_block returns None only when max_iterations > 0,
\* exactly max_iterations increments were made, and none of the nonces it
\* set, the last one included, meets the target; a returned block meets
\* its target.
C16_NoneMeansNoNonceSolved ==
    [][ret'.op = "mine_block" =>
        /\ ret'.out # None => meets_difficulty(ret'.out)
        /\ ret'.out = None =>
              /\ ret'.max_iterations > 0
              /\ Increments(ret') = ret'.max_iterations
              /\ \A k \in 1..ret'.max_iterations :
                    ~meets_difficulty(Bumped(ret'.arg, k))
      ]_vars

\* C16, amended: a returned block meets its target, is the block object
\* itself, and carries the first nonce from the starting one on that does,
\* found within the budget; mine_block returns None only when
\* max_iterations > 0, exactly max_iterations increments were made, and
\* neither the starting nonce nor any nonce set before the last one meets
\* the target (the last nonce set is not tested).
C16_MineBlockBudget ==
    [][ret'.op = "mine_block" =>
        /\ ret'.out # None =>
              /\ meets_difficulty(ret'.out)
              /\ ret'.out = ret'.block
              /\ ret'.out = Bumped(ret'.arg, Increments(ret'))
              /\ \A k \in 0..(Increments(ret') - 1) :
                    ~meets_difficulty(Bumped(ret'.arg, k))
              /\ ret'.max_iterations > 0
                    => Increments(ret') < ret'.max_iterations
        /\ ret'.out = None =>
              /\ ret'.max_iterations > 0
              /\ Increments(ret') = ret'.max_iterations
              /\ ret'.block = Bumped(ret'.arg, ret'.max_iterations)
              /\ \A k \in 0..(ret'.max_iterations - 1) :
                    ~meets_difficulty(Bumped(ret'.arg, k))
      ]_vars

\* mine_block ran out of its budget of more than one increment.
C16_Witness ==
    /\ ret.op = "mine_block"
    /\ ret.out = None
    /\ ret.max_iterations >= 2

\* mine_block returned a block after raising the nonce, within a budget.
C16_WitnessSolved ==
    /\ ret.op = "mine_block"
    /\ ret.out # None
    /\ ret.max_iterations > 0
    /\ Increments(ret) >= 1

\* C17: initialize_genesis on a chain that already has a block raises
\* 'chain already initialized' and changes nothing; on an empty chain it
\* appends exactly one block, at height 0, with prev_hash of 32 zero
\* bytes, difficulty GENESIS_DIFFICULTY and a single Coinbase crediting
\* block_reward(0) to the miner, leaving chain.height = 0 and the tip
\* equal to the returned block.
C17_GenesisOnce ==
    [][ret'.op = "initialize_genesis" =>
        IF chain.main_chain # <<>>
        THEN /\ ret'.err = "chain already initialized"
             /\ chain' = chain
             /\ mempool' = mempool
        ELSE /\ ret'.err = "ok"
             /\ Len(chain'.main_chain) = 1
             /\ DOMAIN chain'.blocks = {block_hash(ret'.out)}
             /\ height(chain') = 0
             /\ tip(chain') = ret'.out
             /\ ret'.out.header.height = 0
             /\ ret'.out.header.prev_hash = ZeroHash
             /\ ret'.out.header.difficulty = GENESIS_DIFFICULTY
             /\ ret'.out.header.miner = ret'.arg
             /\ ret'.out.header.tx_count = 1
             /\ ret'.out.transactions
                   = <<Coinbase(ret'.arg, block_reward(0), 0)>>
             /\ meets_difficulty(ret'.out)
             /\ DOMAIN chain'.state = {ret'.arg}
             /\ Bal(chain'.state, ret'.arg) = block_reward(0)
             /\ DOMAIN chain'.tx_index = {tx_hash(ret'.out.transactions[1])}
      ]_vars

\* initialize_genesis was refused on a chain that has grown past its
\* genesis block.
C17_Witness ==
    /\ ret.op = "initialize_genesis"
    /\ ret.err = "chain already initialized"
    /\ height(chain) >= 1

\* initialize_genesis has just built the first block of an empty chain.
C17_WitnessFirst ==
    /\ ret.op = "initialize_genesis"
    /\ ret.err = "ok"
    /\ tip(chain) = ret.out

\* What the stream delivers is a HANDSHAKE message, in time.
DeliversHandshake(rx) ==
    /\ rx.kind = "frame"
    /\ rx.length <= MAX_MESSAGE_SIZE
    /\ rx.wellformed
    /\ rx.delay < HANDSHAKE_TIMEOUT
    /\ rx.msg.msg_type = "HANDSHAKE"

\* What the stream delivers in time is a message of another type.
DeliversOther(rx) ==
    /\ rx.kind = "frame"
    /\ rx.length <= MAX_MESSAGE_SIZE
    /\ rx.wellformed
    /\ rx.delay < HANDSHAKE_TIMEOUT
    /\ rx.msg.msg_type # "HANDSHAKE"

\* The hash of the local genesis block, as handshakes carry it.
OurGenesisHash(c) == hex(block_hash(get_block_by_height(c, 0)))

\* The call that has just returned made a connection object and took the
\* peer's first delivery for it.
Dialed(r) ==
    /\ r.op \in {"connect_to_peer", "_handle_inbound"}
    /\ r.conn # 0

\* C18: a connection whose peer announces in its HANDSHAKE a genesis_hash
\* other than the hash of the local genesis block is closed and is not
\* entered into the peer registry, outbound or inbound.
C18_GenesisMismatchAborts ==
    [][(/\ Dialed(ret')
        /\ DeliversHandshake(ret'.arg)
        /\ ret'.arg.msg.payload.genesis_hash # OurGenesisHash(chain))
       => /\ conns'[ret'.conn]._closed
          /\ ret'.conn \notin Registered(p2p')
      ]_vars

\* C19: when the peer's HANDSHAKE does not arrive within
\* HANDSHAKE_TIMEOUT, or the first message is not a HANDSHAKE, the
\* connection is closed and the peer is not registered, outbound or
\* inbound; every registered peer has handshake_done set.
C19_HandshakeFailureCloses ==
    [][/\ (/\ Dialed(ret')
           /\ \/ ret'.arg.delay >= HANDSHAKE_TIMEOUT
              \/ DeliversOther(ret'.arg))
          => /\ conns'[ret'.conn]._closed
             /\ ret'.conn \notin Registered(p2p')
       /\ \A i \in Registered(p2p') : conns'[i].handshake_done
      ]_vars

\* C20: when a registered peer sends a frame whose length prefix exceeds
\* MAX_MESSAGE_SIZE, only the 4 bytes of the prefix are read, the
\* connection is closed, its receive loop ends, the peer is out of the
\* registry, no handler runs, and chain, mempool, the other connections
\* and the rest of the server are unchanged.
C20_OversizeFrameDropsPeer ==
    [][(/\ ret'.op = "_peer_loop"
        /\ ret'.conn \in Registered(p2p)
        /\ ~conns[ret'.conn]._closed
        /\ ret'.arg.kind = "frame"
        /\ ret'.arg.length > MAX_MESSAGE_SIZE)
       => LET i == ret'.conn
          IN  /\ ret'.read = 4
              /\ ret'.handler = NoHandler
              /\ conns'[i]._closed
              /\ conns'[i].loop = "done"
              /\ conns'[i].sent = conns[i].sent
              /\ i \notin Registered(p2p')
              /\ conns[i].address \notin DOMAIN p2p'.peers
              /\ \A a \in DOMAIN p2p.peers \ {conns[i].address} :
                    a \in DOMAIN p2p'.peers /\ p2p'.peers[a] = p2p.peers[a]
              /\ \A j \in DOMAIN conns \ {i} : conns'[j] = conns[j]
              /\ [p2p' EXCEPT !.peers = <<>>] = [p2p EXCEPT !.peers = <<>>]
              /\ chain' = chain
              /\ mempool' = mempool
      ]_vars

\* A peer whose transaction was taken into the mempool has then sent an
\* oversize frame: its loop has ended and the transaction is still pending.
C20_Witness ==
    /\ ret.op = "_peer_loop"
    /\ ret.arg.kind = "frame"
    /\ ret.arg.length > MAX_MESSAGE_SIZE
    /\ conns[ret.conn].loop = "done"
    /\ conns[ret.conn].handshake_done
    /\ Len(mempool._txs) = 1

\* One of two registered peers has sent an oversize frame; the other is
\* still registered.
C20_WitnessOther ==
    /\ ret.op = "_peer_loop"
    /\ ret.arg.kind = "frame"
    /\ ret.arg.length > MAX_MESSAGE_SIZE
    /\ conns[ret.conn].loop = "done"
    /\ \E j \in Registered(p2p) : j # ret.conn /\ ~conns[j]._closed

\* ------------------------------------------------------------------------
\* Claims about the message handlers
\* ------------------------------------------------------------------------

\* The node before the step.
Here == NodeOf(chain, mempool, p2p, conns)

\* The step is a turn of the receive loop of an open registered peer that
\* delivers a message of type t.
Delivers(t) ==
    /\ ret'.op = "_peer_loop"
    /\ ret'.conn \in Registered(p2p)
    /\ ~conns[ret'.conn]._closed
    /\ ret'.arg.kind = "frame"
    /\ ret'.arg.msg.msg_type = t

\* handle_new_block does not take block b from peer i into the chain of n.
BlockRejected(n, b, i) == handle_new_block(n, b, i, CurrentTime).err # "ok"

\* The step delivers a TX_RESPONSE, BLOCK_RESPONSE or SYNC_RESPONSE whose
\* transaction, block, or every block, is rejected in the state before.
DeliversRejected ==
    \/ /\ Delivers("TX_RESPONSE")
       /\ ret'.arg.msg.payload.transaction # None
       /\ MempoolAdd(mempool, chain,
                     ret'.arg.msg.payload.transaction).err # "ok"
    \/ /\ Delivers("BLOCK_RESPONSE")
       /\ ret'.arg.msg.payload.block # None
       /\ BlockRejected(Here, ret'.arg.msg.payload.block, ret'.conn)
    \/ /\ Delivers("SYNC_RESPONSE")
       /\ ret'.arg.msg.payload.blocks # <<>>
       /\ \A k \in DOMAIN ret'.arg.msg.payload.blocks :
             BlockRejected(Here, ret'.arg.msg.payload.blocks[k], ret'.conn)

\* C21: a TX_RESPONSE, BLOCK_RESPONSE or SYNC_RESPONSE whose transaction
\* or block is rejected leaves the connection open, the peer registered
\* and its receive loop waiting for the next message, and leaves chain and
\* mempool as they were.
C21_RejectedItemKeepsPeer ==
    [][DeliversRejected
       => LET i == ret'.conn
          IN  /\ ~conns'[i]._closed
              /\ conns'[i].loop = "recv"
              /\ p2p'.peers = p2p.peers
              /\ i \in Registered(p2p')
              /\ chain' = chain
              /\ mempool' = mempool
      ]_vars

\* A registered peer has delivered a BLOCK_RESPONSE with a block that
\* validation rejects, and its loop goes on.
C21_Witness ==
    /\ ret.op = "_peer_loop"
    /\ ret.handler = "_on_block_response"
    /\ ret.arg.msg.payload.block = BadBlock(chain)
    /\ conns[ret.conn].loop = "recv"

\* The same for a TX_RESPONSE with an unsigned transaction.
C21_WitnessTx ==
    /\ ret.op = "_peer_loop"
    /\ ret.handler = "_on_tx_response"
    /\ ret.arg.msg.payload.transaction = UnsignedPost
    /\ conns[ret.conn].loop = "recv"

\* The same for a SYNC_RESPONSE of one rejected block.
C21_WitnessSync ==
    /\ ret.op = "_peer_loop"
    /\ ret.handler = "_on_sync_response"
    /\ ret.arg.msg.payload.blocks = <<BadBlock(chain)>>
    /\ conns[ret.conn].loop = "recv"

\* The step is a call of handle_new_transaction: from the RPC server, or
\* from _on_tx_response with a transaction in the TX_RESPONSE.
TxHandled ==
    \/ ret'.op = "submit_transaction"
    \/ Delivers("TX_RESPONSE") /\ ret'.arg.msg.payload.transaction # None

\* The transaction and the source peer (0: none) of that call.
HandledTx ==
    IF ret'.op = "submit_transaction" THEN ret'.arg
    ELSE ret'.arg.msg.payload.transaction

HandledSource == IF ret'.op = "submit_transaction" THEN 0 ELSE ret'.conn

\* Connection j was sent exactly msg in the step, or nothing.
SentOnly(j, msg) == conns'[j].sent = Append(conns[j].sent, msg)

SentNothing(j) == conns'[j].sent = conns[j].sent

\* C22: handle_new_transaction on an admitted transaction sends one
\* TX_ANNOUNCE of its hash to each open registered peer other than the
\* source and nothing to anyone else; on a refused transaction the error
\* reaches the caller and nothing is sent to anyone.
C22_TxAnnouncedExceptSource ==
    [][TxHandled
       => LET r == MempoolAdd(mempool, chain, HandledTx)
              announce == make_tx_announce(hex(tx_hash(HandledTx)))
          IN  IF r.err = "ok"
              THEN /\ tx_hash(HandledTx) \in PoolHashes(mempool')
                   /\ \A j \in DOMAIN conns :
                         IF /\ j \in Registered(p2p)
                            /\ ~conns[j]._closed
                            /\ j # HandledSource
                         THEN SentOnly(j, announce)
                         ELSE SentNothing(j)
                   /\ ret'.op = "submit_transaction"
                         => ret'.raised = NoError
              ELSE /\ \A j \in DOMAIN conns : SentNothing(j)
                   /\ mempool' = mempool
                   /\ ret'.op = "submit_transaction" => ret'.raised = r.err
      ]_vars

\* A transaction a peer delivered was admitted: the other registered peer
\* got its TX_ANNOUNCE last, the source and the unregistered connection
\* did not.
C22_Witness ==
    /\ ret.op = "_peer_loop"
    /\ ret.handler = "_on_tx_response"
    /\ ret.arg.msg.payload.transaction = RootPost
    /\ ret.conn = 1
    /\ RootHash \in PoolHashes(mempool)
    /\ conns[2].sent # <<>>
    /\ conns[2].sent[Len(conns[2].sent)] = make_tx_announce(hex(RootHash))
    /\ \A k \in DOMAIN conns[1].sent : conns[1].sent[k].msg_type # "TX_ANNOUNCE"
    /\ \A k \in DOMAIN conns[3].sent : conns[3].sent[k].msg_type # "TX_ANNOUNCE"

\* A transaction submitted over RPC was admitted and announced to both
\* registered peers.
C22_WitnessSubmit ==
    /\ ret.op = "submit_transaction"
    /\ ret.raised = NoError
    /\ \A j \in {1, 2} :
          /\ conns[j].sent # <<>>
          /\ conns[j].sent[Len(conns[j].sent)].msg_type = "TX_ANNOUNCE"

\* A submitted transaction was refused: the caller got the error and no
\* peer was sent anything since the handshakes.
C22_WitnessRefused ==
    /\ ret.op = "submit_transaction"
    /\ ret.raised # NoError
    /\ \A j \in DOMAIN conns :
          \A k \in DOMAIN conns[j].sent :
              conns[j].sent[k].msg_type # "TX_ANNOUNCE"

\* The step is a call of handle_new_block on one block from a peer: the
\* block of a BLOCK_RESPONSE, or the only block of a SYNC_RESPONSE shorter
\* than a batch.
BlockHandled ==
    \/ Delivers("BLOCK_RESPONSE") /\ ret'.arg.msg.payload.block # None
    \/ /\ Delivers("SYNC_RESPONSE")
       /\ Len(ret'.arg.msg.payload.blocks) = 1
       /\ SYNC_BATCH_SIZE > 1

HandledBlock ==
    IF ret'.arg.msg.msg_type = "BLOCK_RESPONSE"
    THEN ret'.arg.msg.payload.block
    ELSE ret'.arg.msg.payload.blocks[1]

\* chain.add_block takes block b: it is new, at the next height, and valid.
Accepts(c, b) ==
    /\ block_hash(b) \notin DOMAIN c.blocks
    /\ b.header.height = height(c) + 1
    /\ validate_block(b, c, CurrentTime) = "ok"

\* C23: handle_new_block on a block the chain accepts appends it, purges
\* the mempool of its transactions and revalidates it, and sends one
\* BLOCK_ANNOUNCE(hash, height) to each open registered peer other than the
\* source; on a known, out-of-place or invalid block nothing is sent and
\* chain and mempool are unchanged.
C23_BlockAnnouncedExceptSource ==
    [][BlockHandled
       => LET b == HandledBlock
              announce == make_block_announce(hex(block_hash(b)),
                                              b.header.height)
          IN  IF Accepts(chain, b)
              THEN /\ tip(chain') = b
                   /\ height(chain') = height(chain) + 1
                   /\ \A k \in DOMAIN b.transactions :
                         tx_hash(b.transactions[k]) \notin PoolHashes(mempool')
                   /\ mempool' = revalidate(remove_confirmed(mempool, b),
                                            chain').pool
                   /\ \A j \in DOMAIN conns :
                         IF /\ j \in Registered(p2p)
                            /\ ~conns[j]._closed
                            /\ j # ret'.conn
                         THEN SentOnly(j, announce)
                         ELSE SentNothing(j)
              ELSE /\ \A j \in DOMAIN conns : SentNothing(j)
                   /\ chain' = chain
                   /\ mempool' = mempool
      ]_vars

\* Peer 1 delivered the block that confirms a transaction the node had
\* admitted and announced: the block is the tip, the mempool is empty, and
\* peer 2 alone got the BLOCK_ANNOUNCE.
C23_Witness ==
    /\ ret.op = "_peer_loop"
    /\ ret.handler = "_on_block_response"
    /\ ret.conn = 1
    /\ ret.arg.msg.payload.block = PeerBlock(1)
    /\ tip(chain) = PeerBlock(1)
    /\ hex(RootHash) \in p2p._seen_tx_hashes
    /\ mempool._txs = <<>>
    /\ conns[2].sent[Len(conns[2].sent)]
           = make_block_announce(hex(block_hash(PeerBlock(1))), 1)
    /\ \A k \in DOMAIN conns[1].sent :
          conns[1].sent[k].msg_type # "BLOCK_ANNOUNCE"

\* A peer delivered a block that was not taken: no BLOCK_ANNOUNCE has been
\* sent to anyone.
C23_WitnessRejected ==
    /\ ret.op = "_peer_loop"
    /\ ret.handler = "_on_block_response"
    /\ ret.arg.msg.payload.block = PeerBlock(PeerHeight)
    /\ height(chain) < PeerHeight - 1
    /\ \A j \in DOMAIN conns :
          \A k \in DOMAIN conns[j].sent :
              conns[j].sent[k].msg_type # "BLOCK_ANNOUNCE"

\* C28: a BLOCK_ANNOUNCE(hash, height) of a hash neither seen nor known
\* makes the node send the announcing peer one BLOCK_REQUEST(hash) when
\* height is chain.height + 1, and one SYNC_REQUEST starting at
\* chain.height + 1 when height is above that and no sync is in progress;
\* in every other case nothing is sent. No other peer is sent anything and
\* the chain is not modified.
C28_BlockAnnounceRequests ==
    [][Delivers("BLOCK_ANNOUNCE")
       => LET i == ret'.conn
              h == ret'.arg.msg.payload.block_hash
              announced == ret'.arg.msg.payload.height
              fresh == /\ h \notin p2p._seen_block_hashes
                       /\ fromhex(h) \notin DOMAIN chain.blocks
          IN  /\ chain' = chain
              /\ mempool' = mempool
              /\ \A j \in DOMAIN conns \ {i} : SentNothing(j)
              /\ IF fresh /\ announced = height(chain) + 1
                 THEN SentOnly(i, make_block_request(h))
                 ELSE IF fresh /\ announced > height(chain) + 1
                         /\ ~p2p._syncing
                 THEN /\ Len(conns'[i].sent) = Len(conns[i].sent) + 1
                      /\ SubSeq(conns'[i].sent, 1, Len(conns[i].sent))
                             = conns[i].sent
                      /\ conns'[i].sent[Len(conns'[i].sent)].msg_type
                             = "SYNC_REQUEST"
                      /\ conns'[i].sent[Len(conns'[i].sent)]
                             .payload.start_height = height(chain) + 1
                      /\ p2p'._syncing
                 ELSE SentNothing(i)
      ]_vars

\* A peer announced the block of the next height and was sent the
\* BLOCK_REQUEST for it.
C28_Witness ==
    /\ ret.op = "_peer_loop"
    /\ ret.handler = "_on_block_announce"
    /\ ret.arg.msg.payload.height = height(chain) + 1
    /\ conns[ret.conn].sent[Len(conns[ret.conn].sent)]
           = make_block_request(ret.arg.msg.payload.block_hash)

\* A peer announced a block further ahead while no sync was in progress
\* and was sent a SYNC_REQUEST.
C28_WitnessSync ==
    /\ ret.op = "_peer_loop"
    /\ ret.handler = "_on_block_announce"
    /\ ret.conn = 2
    /\ ret.arg.msg.payload.height > height(chain) + 1
    /\ conns[2].sent[Len(conns[2].sent)].msg_type = "SYNC_REQUEST"

\* A peer announced a block further ahead during a sync with another peer
\* and was sent nothing but its handshake.
C28_WitnessSyncing ==
    /\ ret.op = "_peer_loop"
    /\ ret.handler = "_on_block_announce"
    /\ ret.conn = 2
    /\ ret.arg.msg.payload.height > height(chain) + 1
    /\ p2p._syncing
    /\ Len(conns[2].sent) = 1

\* A peer announced an unknown block at a height the chain already has
\* and was sent nothing but its handshake.
C28_WitnessBehind ==
    /\ ret.op = "_peer_loop"
    /\ ret.handler = "_on_block_announce"
    /\ ret.conn = 2
    /\ ret.arg.msg.payload.height <= height(chain)
    /\ fromhex(ret.arg.msg.payload.block_hash) \notin DOMAIN chain.blocks
    /\ Len(conns[2].sent) = 1

\* The main-chain blocks of c at heights from..to in ascending order.
MainChainBlocks(c, from, to) ==
    [k \in 1..(to - from + 1) |-> get_block_by_height(c, from + k - 1)]

C29_WitnessEmpty ==
    /\ ret.op = "_peer_loop"
    /\ ret.handler = "_on_sync_request"
    /\ ret.arg.msg.payload.start_height > height(chain)
    /\ conns[ret.conn].sent[Len(conns[ret.conn].sent)]
           = make_sync_response(<<>>)

\* A peer asked for a range that ends above the chain and was sent the
\* blocks up to the tip, fewer than a batch.
C29_WitnessTip ==
    /\ ret.op = "_peer_loop"
    /\ ret.handler = "_on_sync_request"
    /\ ret.arg.msg.payload.start_height = height(chain)
    /\ ret.arg.msg.payload.end_height > height(chain)
    /\ conns[ret.conn].sent[Len(conns[ret.conn].sent)]
           = make_sync_response(<<tip(chain)>>)

\* C30: when a block of a SYNC_RESPONSE is rejected (validation failure or
\* wrong height), the chain ends as the blocks before it left it, no later
\* block of the response being applied, and no follow-up SYNC_REQUEST is
\* sent to the peer.
C30_SyncAbortsOnRejection ==
    [][Delivers("SYNC_RESPONSE")
       => LET i == ret'.conn
              blocks == ret'.arg.msg.payload.blocks
          IN  \A k \in DOMAIN blocks :
                 LET before == ApplySyncBlocks(Here, i,
                                               SubSeq(blocks, 1, k - 1),
                                               CurrentTime)
                 IN  BlockRejected(before, blocks[k], i)
                        => /\ chain' = before.chain
                           /\ SentNothing(i)
      ]_vars

\* A SYNC_RESPONSE whose first block failed validation has had its second
\* block applied: that block is the tip.
C30_LaterBlockApplied ==
    /\ ret.op = "_peer_loop"
    /\ ret.handler = "_on_sync_response"
    /\ Len(ret.arg.msg.payload.blocks) = 2
    /\ ret.arg.msg.payload.blocks[1].header.prev_hash = EMPTY_HASH
    /\ ret.arg.msg.payload.blocks[1].header.height = height(chain)
    /\ tip(chain) = ret.arg.msg.payload.blocks[2]

\* A full SYNC_RESPONSE whose last block failed validation has been
\* followed by the SYNC_REQUEST for the next window.
C30_FollowUpAfterRejection ==
    /\ ret.op = "_peer_loop"
    /\ ret.handler = "_on_sync_response"
    /\ Len(ret.arg.msg.payload.blocks) = SYNC_BATCH_SIZE
    /\ ret.arg.msg.payload.blocks[SYNC_BATCH_SIZE].header.prev_hash
           = EMPTY_HASH
    /\ conns[ret.conn].sent[Len(conns[ret.conn].sent)]
           = make_sync_request(height(chain) + 1,
                               height(chain) + SYNC_BATCH_SIZE)

\* ------------------------------------------------------------------------
\* Claims about Node.stop
\* ------------------------------------------------------------------------

\* Connection i has been in the registry: it is registered only with its
\* handshake done, and handshake_done is never cleared.
WasRegistered(i) == conns[i].handshake_done

\* C26: once Node.stop() has completed, the mining task has ended, the
\* listener is closed, every connection that was registered is closed,
\* and the registry is empty.
C26_StoppedNodeIsClosed ==
    tasks.stop = "done"
        => /\ tasks._mining_task # "running"
           /\ tasks._server = "closed"
           /\ \A i \in DOMAIN conns : WasRegistered(i) => conns[i]._closed
           /\ DOMAIN p2p.peers = {}

\* Node.stop() has just returned, and a connection whose handshake
\* completed while stop was closing the listed peers is open, with its
\* receive loop alive and the registry cleared.
C26_OpenAtCompletion ==
    /\ ret.op = "stop"
    /\ ret.arg = "done"
    /\ p2p.peers = <<>>
    /\ \E i \in DOMAIN conns :
          /\ WasRegistered(i)
          /\ ~conns[i]._closed
          /\ conns[i].loop # "done"

\* C27: once Node.stop() has completed, no message is sent on any
\* connection, no connect_to_peer task is created, and no peer is added
\* to the registry.
C27_NoStepAfterStop ==
    [][tasks.stop = "done"
       => /\ \A i \in DOMAIN conns' :
                IF i \in DOMAIN conns THEN conns'[i].sent = conns[i].sent
                ELSE conns'[i].sent = <<>>
          /\ tasks'.dials \subseteq tasks.dials
          /\ DOMAIN p2p'.peers \subseteq DOMAIN p2p.peers
      ]_vars

\* After Node.stop() returned, a round of the peer-exchange loop has
\* created a connect_to_peer task.
C27_DialedAfterStop ==
    /\ tasks.stop = "done"
    /\ ret.op = "peer_exchange_loop"
    /\ ret.arg # {}
    /\ tasks.dials # {}

\* After Node.stop() returned, a connect_to_peer task has completed its
\* handshake and registered the peer.
C27_RegisteredAfterStop ==
    /\ tasks.stop = "done"
    /\ ret.op = "connect_to_peer"
    /\ ret.out
    /\ ret.address \in DOMAIN p2p.peers

\* ------------------------------------------------------------------------
\* Claims about two connected nodes
\* ------------------------------------------------------------------------

\* B has dialed A and the handshake is complete on both sides.
PairConnected ==
    /\ conns # <<>>
    /\ remote.conns # <<>>
    /\ conns[1].handshake_done
    /\ remote.conns[1].handshake_done
    /\ 1 \in Registered(p2p)
    /\ 1 \in Registered(remote.p2p)

AdmittedOnA(tx) ==
    /\ ret.op = "submit_transaction"
    /\ ret.raised = NoError
    /\ ret.arg = tx
    /\ PairConnected
    /\ chain = remote.chain

\* C25: a transaction admitted on A through submit_transaction while A and
\* B are connected and hold the same chain state is eventually in B's
\* mempool (frames delivered in order, receive loops scheduled fairly).
C25_TxGossipReachesPeer ==
    \A tx \in SubmittedTxs :
        AdmittedOnA(tx) ~> (tx_hash(tx) \in PoolHashes(remote.mempool))

\* The transaction admitted on A is in B's mempool after A's TX_ANNOUNCE,
\* B's TX_REQUEST and A's TX_RESPONSE.
C25_Witness ==
    /\ PairConnected
    /\ RootHash \in PoolHashes(mempool)
    /\ RootHash \in PoolHashes(remote.mempool)
    /\ \E j, k \in DOMAIN conns[1].sent :
          /\ j < k
          /\ conns[1].sent[j] = make_tx_announce(hex(RootHash))
          /\ conns[1].sent[k] = make_tx_response(RootPost)
    /\ \E k \in DOMAIN remote.conns[1].sent :
          remote.conns[1].sent[k] = make_tx_request(hex(RootHash))

\* The same after B has synced to A's chain, for a transaction valid on
\* that chain.
C25_WitnessSynced ==
    /\ PairConnected
    /\ height(remote.chain) = PeerHeight
    /\ tx_hash(MkPost(1, 1, None, 1)) \in PoolHashes(remote.mempool)

\* ------------------------------------------------------------------------
\* Claims about the _syncing flag
\* ------------------------------------------------------------------------

\* C31: after a SYNC_RESPONSE has been processed, either the batch was
\* full with the peer still ahead of its last block and the SYNC_REQUEST
\* for the next window (last_height + 1 .. last_height + SYNC_BATCH_SIZE)
\* has been sent to the peer, or _syncing is false.
C31_SyncResponseSettlesFlag ==
    [][Delivers("SYNC_RESPONSE")
       => LET i == ret'.conn
              blocks == ret'.arg.msg.payload.blocks
          IN  \/ ~p2p'._syncing
              \/ /\ Len(blocks) = SYNC_BATCH_SIZE
                 /\ blocks[Len(blocks)].header.height < conns[i].peer_height
                 /\ SentOnly(i, make_sync_request(
                                    blocks[Len(blocks)].header.height + 1,
                                    blocks[Len(blocks)].header.height
                                        + SYNC_BATCH_SIZE))
      ]_vars

\* A full SYNC_RESPONSE none of whose blocks was accepted, from a peer that
\* is not ahead of its last block, has been processed: no SYNC_REQUEST
\* followed and _syncing is still set.
C31_FlagLeftSet ==
    /\ ret.op = "_peer_loop"
    /\ ret.handler = "_on_sync_response"
    /\ Len(ret.arg.msg.payload.blocks) = SYNC_BATCH_SIZE
    /\ ret.arg.msg.payload.blocks[SYNC_BATCH_SIZE].header.height
           >= conns[ret.conn].peer_height
    /\ p2p._syncing
    /\ \A j \in DOMAIN conns[ret.conn].sent :
          conns[ret.conn].sent[j].msg_type # "SYNC_REQUEST"

\* The batch was short, or a block of it was accepted: _syncing is false.
C31_FlagCleared ==
    /\ ret.op = "_peer_loop"
    /\ ret.handler = "_on_sync_response"
    /\ Len(ret.arg.msg.payload.blocks) = SYNC_BATCH_SIZE
    /\ tip(chain) = ret.arg.msg.payload.blocks[SYNC_BATCH_SIZE]
    /\ ~p2p._syncing

\* The number of SYNC_REQUESTs written to connection j of cs.
SyncRequests(cs, j) ==
    Cardinality({k \in DOMAIN cs[j].sent :
                    cs[j].sent[k].msg_type = "SYNC_REQUEST"})

\* Connection j was sent a SYNC_REQUEST and its peer has delivered nothing
\* since its handshake: the request is unanswered.
Unanswered(cs, j) == SyncRequests(cs, j) > 0 /\ cs[j].received = 1

\* C39: while a SYNC_REQUEST the node sent is unanswered (before and after
\* the step), the node sends no SYNC_REQUEST, to that peer or any other.
C39_OneSyncOutstanding ==
    [][\A j \in DOMAIN conns :
          Unanswered(conns, j) /\ Unanswered(conns', j)
             => \A i \in DOMAIN conns' :
                   SyncRequests(conns', i) = SyncRequests(conns, i)
      ]_vars

\* With the SYNC_REQUEST to peer 1 unanswered, a block from peer 2 was
\* accepted and a BLOCK_ANNOUNCE of peer 2 for a height further ahead has
\* then had a second SYNC_REQUEST sent, to peer 2.
C39_TwoOutstanding ==
    /\ ret.op = "_peer_loop"
    /\ ret.handler = "_on_block_announce"
    /\ ret.conn = 2
    /\ Unanswered(conns, 1)
    /\ conns[2].sent[Len(conns[2].sent)]
           = make_sync_request(height(chain) + 1,
                               height(chain) + SYNC_BATCH_SIZE)
    /\ p2p._syncing

\* C39 as the code has it: a SYNC_REQUEST is sent only by _start_sync with
\* _syncing false before the step and set by it, or by _on_sync_response as
\* the follow-up of a full batch, to the peer that delivered it; one step
\* sends at most one, and while _syncing stays set no sync is started.
C39_SyncGatedByFlag ==
    [][\A i \in DOMAIN conns :
          SyncRequests(conns', i) # SyncRequests(conns, i)
             => /\ SyncRequests(conns', i) = SyncRequests(conns, i) + 1
                /\ \A j \in DOMAIN conns \ {i} :
                      SyncRequests(conns', j) = SyncRequests(conns, j)
                /\ \/ ~p2p._syncing /\ p2p'._syncing
                   \/ /\ Delivers("SYNC_RESPONSE")
                      /\ ret'.conn = i
                      /\ Len(ret'.arg.msg.payload.blocks) = SYNC_BATCH_SIZE
      ]_vars

\* A BLOCK_ANNOUNCE for a height further ahead arrived while _syncing was
\* set: no SYNC_REQUEST went to the announcing peer.
C39_Witness ==
    /\ ret.op = "_peer_loop"
    /\ ret.handler = "_on_block_announce"
    /\ ret.arg.msg.payload.height > height(chain) + 1
    /\ ret.arg.msg.payload.block_hash \in p2p._seen_block_hashes
    /\ p2p._syncing
    /\ Unanswered(conns, 1)
    /\ ret.conn = 2
    /\ conns[2].received = 2
    /\ SyncRequests(conns, 2) = 0

\* ------------------------------------------------------------------------
\* Claims about the dedup sets
\* ------------------------------------------------------------------------

\* The number of messages of type t written to the connections cs whose
\* payload carries hash h in field f.
Requested(cs, t, f, h) ==
    Cardinality(UNION {{<<j, k>> : k \in {x \in DOMAIN cs[j].sent :
                                             /\ cs[j].sent[x].msg_type = t
                                             /\ cs[j].sent[x].payload[f] = h}} :
                          j \in DOMAIN cs})

\* The hashes announced to the node.
AnnouncedTxHashes == {hex(tx_hash(tx)) : tx \in AnnouncedTxs}

AnnouncedBlockHashes == {hex(block_hash(PeerBlock(x))) : x \in 1..PeerHeight}

\* C35: seen_tx_hashes and seen_block_hashes only grow; an announce for a
\* hash that is in the seen set (announced before, or broadcast by the
\* node itself) or that the node holds (mempool or tx_index; chain) has
\* nothing sent in reply; and after every step the node has sent at most
\* one TX_REQUEST per transaction hash and one BLOCK_REQUEST per block hash.
C35_DedupSuppressesRequests ==
    [][/\ p2p._seen_tx_hashes \subseteq p2p'._seen_tx_hashes
       /\ p2p._seen_block_hashes \subseteq p2p'._seen_block_hashes
       /\ Delivers("TX_ANNOUNCE")
             => LET h == ret'.arg.msg.payload.tx_hash
                IN  /\ h \in p2p'._seen_tx_hashes
                    /\ \/ h \in p2p._seen_tx_hashes
                       \/ fromhex(h) \in PoolHashes(mempool)
                       \/ fromhex(h) \in DOMAIN chain.tx_index
                          => \A j \in DOMAIN conns : SentNothing(j)
       /\ Delivers("BLOCK_ANNOUNCE")
             => LET h == ret'.arg.msg.payload.block_hash
                IN  /\ h \in p2p'._seen_block_hashes
                    /\ \/ h \in p2p._seen_block_hashes
                       \/ fromhex(h) \in DOMAIN chain.blocks
                          => \A j \in DOMAIN conns : SentNothing(j)
       /\ \A h \in AnnouncedTxHashes :
             Requested(conns', "TX_REQUEST", "tx_hash", h) <= 1
       /\ \A h \in AnnouncedBlockHashes :
             Requested(conns', "BLOCK_REQUEST", "block_hash", h) <= 1
      ]_vars

\* A transaction hash was announced by both peers: the first announce was
\* answered with a TX_REQUEST, the second with nothing.
C35_Witness ==
    /\ ret.op = "_peer_loop"
    /\ ret.handler = "_on_tx_announce"
    /\ conns[1].received = 2
    /\ conns[2].received = 2
    /\ Requested(conns, "TX_REQUEST", "tx_hash",
                 ret.arg.msg.payload.tx_hash) = 1
    /\ conns[ret.conn].sent[Len(conns[ret.conn].sent)].msg_type
           # "TX_REQUEST"

\* The same for a block hash and BLOCK_REQUEST.
C35_WitnessBlock ==
    /\ ret.op = "_peer_loop"
    /\ ret.handler = "_on_block_announce"
    /\ conns[1].received = 2
    /\ conns[2].received = 2
    /\ Requested(conns, "BLOCK_REQUEST", "block_hash",
                 ret.arg.msg.payload.block_hash) = 1
    /\ conns[ret.conn].sent[Len(conns[ret.conn].sent)].msg_type
           # "BLOCK_REQUEST"

\* A transaction the node admitted and broadcast itself was announced to
\* it: no TX_REQUEST.
C35_WitnessOwn ==
    /\ ret.op = "_peer_loop"
    /\ ret.handler = "_on_tx_announce"
    /\ fromhex(ret.arg.msg.payload.tx_hash) \in PoolHashes(mempool)
    /\ Requested(conns, "TX_REQUEST", "tx_hash",
                 ret.arg.msg.payload.tx_hash) = 0

\* A block of the node's chain was announced to it: no BLOCK_REQUEST.
C35_WitnessHeld ==
    /\ ret.op = "_peer_loop"
    /\ ret.handler = "_on_block_announce"
    /\ fromhex(ret.arg.msg.payload.block_hash) \in DOMAIN chain.blocks
    /\ ret.arg.msg.payload.height = 1
    /\ Requested(conns, "BLOCK_REQUEST", "block_hash",
                 ret.arg.msg.payload.block_hash) = 0


(***************************************************************************)
(* compute_expected_difficulty on its own: the retarget at a window        *)
(* boundary applied to windows of chosen difficulty and span, beside the   *)
(* chain that add_block grows through a boundary.                          *)
(***************************************************************************)
\* Difficulties of the block before the boundary, and the seconds between
\* the first block of the window and that block (zero and negative spans
\* are possible: timestamps only have to exceed the parent's)
RetargetDifficulties == {1, 2, 3, 4, 5, 8, 13, 16, 17, 26, 51, 85, 102, 117}
RetargetSpans ==
    {-3, 0, 1, 7, 8, 11, 29, 30, 31, 39, 51, 78, 102, 117, 119, 120, 121, 500}

\* A block of the window as compute_expected_difficulty reads it
WindowBlock(difficulty, timestamp) ==
    [GenesisBlock(1, 1) EXCEPT !.header.difficulty = difficulty,
                               !.header.timestamp = timestamp]

InitDifficulty ==
    /\ chain = EmptyChain
    /\ mempool = [_txs |-> <<>>, _max_size |-> MaxPoolSize]
    /\ p2p = P2PServer
    /\ conns = <<>>
    /\ tasks = NoTasks
    /\ remote = None
    /\ \E d \in RetargetDifficulties, s \in RetargetSpans :
          ret = [op |-> "window", arg |-> [prev |-> d, span |-> s],
                 err |-> "ok"]

\* compute_expected_difficulty at a boundary whose window starts at
\* timestamp 1 and ends span seconds later at difficulty prev
ExpectedDifficultyCall ==
    /\ ret.op = "window"
    /\ ret' = [op |-> "compute_expected_difficulty", arg |-> ret.arg,
               err |-> "ok",
               out |-> WindowRetarget(WindowBlock(ret.arg.prev, 1),
                                      WindowBlock(ret.arg.prev,
                                                  1 + ret.arg.span))]
    /\ UNCHANGED <<chain, mempool, p2p, conns, tasks, remote>>

NextDifficulty ==
    \/ ExpectedDifficultyCall
    \/ \E m \in Miners : InitializeGenesis(m, 1)
    \/ AddBlockCall
    \/ Return

SpecDifficulty == InitDifficulty /\ [][NextDifficulty]_vars

(***************************************************************************)
(* Claims about the difficulty rule                                        *)
(***************************************************************************)
\* max(1, floor(prev * ratio)) in exact arithmetic, ratio being
\* expected_time / actual_time clamped to [1/4, 4]
ExactRetarget(prev_difficulty, actual_time, expected_time) ==
    Max(1, IF expected_time >= MAX_DIFFICULTY_ADJUSTMENT * actual_time
           THEN MAX_DIFFICULTY_ADJUSTMENT * prev_difficulty
           ELSE IF MAX_DIFFICULTY_ADJUSTMENT * expected_time <= actual_time
           THEN prev_difficulty \div MAX_DIFFICULTY_ADJUSTMENT
           ELSE (prev_difficulty * expected_time) \div actual_time)

\* The span of a window as the retarget takes it: at least one second
ActualTime(span) == IF span <= 0 THEN 1 ELSE span

\* The difficulty add_block demands of a block at height h on chain c, by
\* the three cases of the rule
RuleDifficulty(c, h) ==
    IF h = 0 THEN GENESIS_DIFFICULTY
    ELSE IF h % DIFFICULTY_ADJUSTMENT_WINDOW # 0
    THEN get_block_by_height(c, h - 1).header.difficulty
    ELSE WindowRetarget(
             get_block_by_height(c, h - DIFFICULTY_ADJUSTMENT_WINDOW),
             get_block_by_height(c, h - 1))

C34_BelowExactFloor ==
    /\ ret.op = "compute_expected_difficulty"
    /\ ret.out < ExactRetarget(ret.arg.prev, ActualTime(ret.arg.span),
                               DIFFICULTY_ADJUSTMENT_WINDOW * BLOCK_TIME_TARGET)

C34_WitnessBoundary ==
    /\ ret.op = "add_block"
    /\ ret.err = "ok"
    /\ ret.arg.header.height % DIFFICULTY_ADJUSTMENT_WINDOW = 0
    /\ ret.arg.header.difficulty
           > get_block_by_height(chain, ret.arg.header.height - 1)
                 .header.difficulty

\* A block whose difficulty is not the expected one is turned away.
C34_WitnessRejected ==
    /\ ret.op = "add_block"
    /\ ret.err = "difficulty mismatch"
    /\ ret.arg.header.height = height(chain) + 1


(***************************************************************************)
(* Claims about the state root                                             *)
(***************************************************************************)
\* C37: after every successful add_block the state root of the chain's
\* world state equals the accepted block's header.state_root.
C37_StateRootMatchesHeader ==
    [][Accepted(ret')
          => state_root(chain'.state) = ret'.arg.header.state_root]_vars

\* A block carrying signed transactions has been accepted on top of another
\* accepted block, each moving the world state.
C37_Witness ==
    /\ Accepted(ret)
    /\ height(chain) = 2
    /\ Len(ret.arg.transactions) >= 2
    /\ state_root(chain.state) # MainBlock(chain, 2).header.state_root


(***************************************************************************)
(* The mining task beside the receive loops: Node._mining_loop runs from   *)
(* one suspension to the next (the sleep(0) of _async_mine after a chunk   *)
(* without a solution, the broadcast after a commit) while registered      *)
(* peers deliver blocks and transactions in between.                       *)
(***************************************************************************)
\* Heights the mining task mines up to, frames the peers deliver, and
\* passes of the mining loop without a suspension that are followed.
MaxMinedHeight == 4
MaxMiningFrames == 3
MaxLoopPasses == 3

\* What one run of the mining task leaves: the node, the template it is
\* suspended on (None after a commit), the block committed (None if none),
\* the solved blocks it discarded as stale and those add_block rejected.
MiningRun(n, template, mined, stale, rejected) ==
    [node |-> n, template |-> template, mined |-> mined, stale |-> stale,
     rejected |-> rejected]

\* add_block, remove_confirmed, revalidate and broadcast_block of the
\* mining loop, for a solved block that add_block accepts
MiningCommit(n, block, c1) ==
    broadcast_block([n EXCEPT !.chain = c1,
                              !.mempool = PurgePool(n.mempool, block, c1)],
                    hex(block_hash(block)), block.header.height, 0)

\* Node._mining_loop from a resumption to its next suspension.  template
\* is the block _async_mine resumes on, None when the loop resumes at its
\* top; a solved block that is stale or rejected sends the loop round
\* again with no suspension (passes counts the rounds still followed).
RECURSIVE _mining_loop(_, _, _, _, _)
\* Mutant: whatever _async_mine returns is committed, with neither the
\* look at the chain's height nor add_block's validation.
RECURSIVE _mining_loop_unchecked(_, _, _, _, _)
_mining_loop_unchecked(n, template, passes, stale, rejected) ==
    IF template = None
    THEN _mining_loop_unchecked(n, create_block_template(n.chain, n.mempool,
                                                         MinerKey, CurrentTime),
                                passes, stale, rejected)
    ELSE IF mine_block(template, ChunkSize).out = None
         THEN MiningRun(n, mine_block(template, ChunkSize).block, None,
                        stale, rejected)
         ELSE MiningRun(MiningCommit(n, mine_block(template, ChunkSize).out,
                                     _apply_block(n.chain,
                                         mine_block(template, ChunkSize).out)),
                        None, mine_block(template, ChunkSize).out,
                        stale, rejected)

_mining_loop(n, template, passes, stale, rejected) ==
    IF template = None
    THEN _mining_loop(n, create_block_template(n.chain, n.mempool, MinerKey,
                                               CurrentTime),
                      passes, stale, rejected)
    ELSE \* _async_mine: one chunk
         IF mine_block(template, ChunkSize).out = None
         THEN MiningRun(n, mine_block(template, ChunkSize).block, None,
                        stale, rejected)
         \* chain may have advanced while mining
         ELSE IF mine_block(template, ChunkSize).out.header.height
                     # height(n.chain) + 1
         THEN IF passes = 0
              THEN MiningRun(n, None, None,
                             Append(stale,
                                    mine_block(template, ChunkSize).out),
                             rejected)
              ELSE _mining_loop(n, None, passes - 1,
                                Append(stale,
                                       mine_block(template, ChunkSize).out),
                                rejected)
         ELSE IF validate_block(mine_block(template, ChunkSize).out, n.chain,
                                CurrentTime) # "ok"
         THEN IF passes = 0
              THEN MiningRun(n, None, None, stale,
                             Append(rejected,
                                    mine_block(template, ChunkSize).out))
              ELSE _mining_loop(n, None, passes - 1, stale,
                                Append(rejected,
                                       mine_block(template, ChunkSize).out))
         ELSE MiningRun(MiningCommit(n, mine_block(template, ChunkSize).out,
                                     _apply_block(n.chain,
                                         mine_block(template, ChunkSize).out)),
                        None, mine_block(template, ChunkSize).out,
                        stale, rejected)

\* The transactions offered to the mining node: two posts of key 1 at the
\* same nonce and a transfer of key 2.
MiningTxs ==
    {MkPost(1, 1, None, 1), MkPost(1, 1, None, 2), MkTransfer(2, 1, 10, 0, 1)}

\* The blocks peers send to a node on chain c: the peers' own next block,
\* one that confirms a post, and one that validation rejects.
MiningBlocks(c) ==
    {PeerBlock(h) : h \in {height(c), height(c) + 1} \cap (1..PeerHeight)}
    \cup {BuildBlock(c, <<MkPost(1, 1, None, 1)>>, 2,
                     tip(c).header.timestamp + 1),
          BadBlock(c)}

\* What a registered peer delivers to the mining node.
MiningRx(c) ==
    {Frame(m, 64, 0) : m \in
        {make_tx_response(tx) : tx \in MiningTxs}
        \cup {make_block_response(b) : b \in MiningBlocks(c)}
        \cup {make_sync_response(<<b>>) : b \in MiningBlocks(c)}
        \cup {make_sync_response(Run(height(c) + 1, SYNC_BATCH_SIZE))}}

\* A node on the first blocks of the peers' chain, its peers registered,
\* with the mining task started and not yet run.
InitMining ==
    /\ chain = GossipStart(MaxHeight, PeerHeight).chain
    /\ mempool = GossipStart(MaxHeight, PeerHeight).mempool
    /\ p2p = GossipStart(MaxHeight, PeerHeight).p2p
    /\ conns = GossipStart(MaxHeight, PeerHeight).conns
    /\ tasks = [NoTasks EXCEPT !._running = TRUE, !._mining_task = "running"]
    /\ remote = None
    /\ ret = NoCall

\* The mining task is scheduled and runs to its next suspension.
MiningTurn ==
    /\ tasks._running
    /\ tasks._mining_task = "running"
    /\ height(chain) < MaxMinedHeight
    /\ \E r \in {_mining_loop(NodeOf(chain, mempool, p2p, conns),
                              tasks.template, MaxLoopPasses, <<>>, <<>>)} :
          /\ Takes(r.node)
          /\ tasks' = [tasks EXCEPT !.template = r.template]
          /\ ret' = [op |-> "_mining_loop", arg |-> r.mined, err |-> "ok",
                     resumed |-> tasks.template, stale |-> r.stale,
                     rejected |-> r.rejected]
          /\ UNCHANGED remote

\* A receive loop is scheduled and handles one message of its peer.
MiningRxTurn ==
    /\ TotalReceived(conns) - Len(conns) < MaxMiningFrames
    /\ \E i \in DOMAIN conns :
          /\ conns[i].loop = "recv"
          /\ \E rx \in MiningRx(chain) : PeerLoopTurn(i, rx)

NextMining ==
    \/ MiningTurn
    \/ MiningRxTurn

SpecMining == InitMining /\ [][NextMining]_vars


(***************************************************************************)
(* Claims about the mining loop beside inbound blocks                      *)
(***************************************************************************)
\* Chain c holds one block per height: the block at index i of the main
\* chain has height i - 1, and no two stored blocks have the same height.
OneBlockPerHeight(c) ==
    /\ \A i \in 1..Len(c.main_chain) : MainBlock(c, i).header.height = i - 1
    /\ \A g, h \in DOMAIN c.blocks :
          c.blocks[g].header.height = c.blocks[h].header.height => g = h

\* The hash of block b was announced on some connection of cs.
Announced(cs, b) ==
    \E j \in DOMAIN cs : \E k \in DOMAIN cs[j].sent :
        cs[j].sent[k] = make_block_announce(hex(block_hash(b)),
                                            b.header.height)

\* C32: the mining loop commits a solved block only on the tip the chain
\* has at that moment; a block solved for a height the chain has meanwhile
\* reached is discarded (not appended, no mempool purge, no broadcast) and
\* the loop keeps running; and whatever way the mining task and the
\* handlers of inbound BLOCK_RESPONSE and SYNC_RESPONSE interleave, the
\* chain never holds two blocks at the same height.
C32_MiningCommitsOnTipOnly ==
    [][/\ OneBlockPerHeight(chain')
       /\ ret'.op = "_mining_loop"
          => /\ tasks'._running /\ tasks'._mining_task = "running"
             /\ ret'.arg # None
                  => /\ ret'.arg.header.height = height(chain) + 1
                     /\ ret'.arg.header.prev_hash = block_hash(tip(chain))
                     /\ chain'.main_chain
                          = Append(chain.main_chain, block_hash(ret'.arg))
                     /\ tasks'.template = None
             /\ ret'.arg = None => chain' = chain /\ mempool' = mempool
             /\ \A k \in DOMAIN ret'.stale :
                   /\ ret'.stale[k].header.height <= height(chain)
                   /\ block_hash(ret'.stale[k]) \notin DOMAIN chain'.blocks
                   /\ ~Announced(conns', ret'.stale[k])
                   /\ hex(block_hash(ret'.stale[k]))
                          \notin p2p'._seen_block_hashes
             /\ tasks.template # None
                    /\ tasks.template.header.height # height(chain) + 1
                  => Len(ret'.stale) >= 1
       ]_vars

\* The mining task was suspended on a template, a peer's block took the
\* height, and the block then solved from the template was discarded.
C32_Witness ==
    /\ ret.op = "_mining_loop"
    /\ ret.resumed # None
    /\ Len(ret.stale) = 1
    /\ ret.stale[1].header.height = height(chain)
    /\ tip(chain).header.miner = 2

\* The mining task was suspended on a template and committed the block it
\* solved from it when it ran again, the chain not having moved.
C32_WitnessCommitted ==
    /\ ret.op = "_mining_loop"
    /\ ret.resumed # None
    /\ ret.arg # None
    /\ ret.arg.header.nonce >= ChunkSize
    /\ tip(chain) = ret.arg
    /\ Announced(conns, ret.arg)


(***************************************************************************)
(* Claims about the mempool beside the chain                               *)
(***************************************************************************)
\* C36: wherever the tasks of the node are suspended, the mempool holds no
\* transaction whose hash is in chain.tx_index and every pending
\* transaction passes state validation against the chain's state: commit,
\* purge and revalidation happen without a suspension between them, for
\* inbound blocks and for mined ones.
C36_PoolConsistentWithChain ==
    \A i \in 1..Len(mempool._txs) :
        /\ tx_hash(mempool._txs[i]) \notin DOMAIN chain.tx_index
        /\ StateValid(mempool._txs[i], chain)

\* A peer's block has confirmed one of two pooled transactions, the other
\* is still pending, and the mining task is suspended on a template.
C36_Witness ==
    /\ tx_hash(MkPost(1, 1, None, 1)) \in DOMAIN chain.tx_index
    /\ tx_hash(MkTransfer(2, 1, 10, 0, 1)) \in PoolHashes(mempool)
    /\ tasks.template # None

\* The mining loop has committed a block that confirms the dearer of two
\* pooled posts of one nonce; the other went with the revalidation.
C36_WitnessMined ==
    /\ ret.op = "_mining_loop"
    /\ ret.arg # None
    /\ tx_hash(MkPost(1, 1, None, 2)) \in DOMAIN chain.tx_index
    /\ chain.tx_index[tx_hash(MkPost(1, 1, None, 2))] = block_hash(ret.arg)
    /\ Len(ret.arg.transactions) = 2
    /\ mempool._txs = <<>>


(***************************************************************************)
(* Connections that close: a node with registered peers whose streams end, *)
(* carry an oversize frame or break under a write, and Node.stop.          *)
(***************************************************************************)
\* Frames the peers deliver before the receive loops are left alone.
MaxCloseFrames == 2

\* What a registered peer delivers: a request that is answered, a
\* transaction that is announced to the other peers, the end of the
\* stream, an oversize frame, and bytes that do not decode.
CloseRx ==
    {Frame(make_peers_request, 64, 0), Frame(make_tx_response(RootPost), 64, 0),
     Eof, Frame(make_peers_request, MAX_MESSAGE_SIZE + 1, 0), Garbage(64)}

\* A started node with two registered peers, their receive loops begun.
InitClose ==
    /\ chain = GossipStart(0, 0).chain
    /\ mempool = GossipStart(0, 0).mempool
    /\ p2p = GossipStart(0, 0).p2p
    /\ conns = GossipStart(0, 0).conns
    /\ tasks = [NoTasks EXCEPT !._running = TRUE, !._server = "open"]
    /\ remote = None
    /\ ret = NoCall

\* The receive loop of an open connection reads what its peer delivers.
CloseRxTurn ==
    /\ TotalReceived(conns) - Len(conns) < MaxCloseFrames
    /\ \E i \in DOMAIN conns :
          /\ conns[i].loop = "recv"
          /\ ~conns[i]._closed
          /\ \E rx \in CloseRx : PeerLoopTurn(i, rx)

\* The receive loop of connection i, closed from outside it (a failed write
\* of a broadcast, P2PServer.stop), is resumed: its pending read ends with
\* the closed transport and the loop is left.
CanEnd(i) ==
    /\ i \in DOMAIN conns
    /\ conns[i].loop = "recv"
    /\ conns[i]._closed

LoopEnds(i) == CanEnd(i) /\ PeerLoopTurn(i, Eof)

\* The transport of an open connection fails: the next write to it raises.
Break ==
    \E i \in DOMAIN conns :
        /\ conns[i].loop = "recv"
        /\ ~conns[i]._closed
        /\ ~conns[i].broken
        /\ conns' = [conns EXCEPT ![i].broken = TRUE]
        /\ ret' = [op |-> "break", arg |-> i, err |-> "ok"]
        /\ UNCHANGED <<chain, mempool, p2p, tasks, remote>>

\* A transaction is submitted over RPC and announced to the peers.
CloseSubmit == SubmitTransaction(RootPost)

NextClose ==
    \/ CloseRxTurn
    \/ \E i \in 1..MaxConns : LoopEnds(i)
    \/ Break
    \/ CloseSubmit
    \/ StopBegin
    \/ StopClosePeer
    \/ StopFinish

\* WF_vars(LoopEnds(i)) with ENABLED <<LoopEnds(i)>>_vars written out: the
\* step is possible exactly when CanEnd(i), and it moves the loop to "done".
FairLoopEnd(i) == []<>(~CanEnd(i)) \/ []<><<LoopEnds(i)>>_vars

\* The event loop resumes a receive loop whose transport was closed, and
\* P2PServer.stop runs on once it has begun.
SpecClose ==
    /\ InitClose
    /\ [][NextClose]_vars
    /\ \A i \in 1..MaxConns : FairLoopEnd(i)
    /\ WF_vars(StopClosePeer)
    /\ WF_vars(StopFinish)


(***************************************************************************)
(* Claims about closed connections                                         *)
(***************************************************************************)
\* Connection i, which has a receive loop, is closed.
ClosedPeer(i) ==
    /\ i \in DOMAIN conns
    /\ conns[i]._closed
    /\ conns[i].loop # "none"

\* The receive loop of connection i has ended and the registry does not
\* hold the connection.
LoopGone(i) ==
    /\ conns[i].loop = "done"
    /\ i \notin Registered(p2p)

\* C33: once the connection of a registered peer is closed (end of stream
\* or read error, oversize frame, failed send, local stop) its receive loop
\* ends and the registry does not hold it, nothing more is written to it,
\* and it stays closed; close() on a closed connection changes nothing: the
\* writer is closed once.
C33_ClosedPeerLeaves ==
    /\ \A i \in 1..MaxConns : ClosedPeer(i) ~> LoopGone(i)
    /\ [][\A i \in DOMAIN conns :
             /\ conns[i]._closed
                  => /\ conns'[i]._closed
                     /\ conns'[i].sent = conns[i].sent
                     /\ conns'[i].writer_closes = conns[i].writer_closes
             /\ conns'[i].writer_closes <= 1
             /\ close(close(NodeOf(chain', mempool', p2p', conns'), i), i)
                    = close(NodeOf(chain', mempool', p2p', conns'), i)]_vars

\* A broadcast has closed a connection whose transport had failed, while
\* its receive loop waits in receive and the registry still holds it.
C33_Witness ==
    /\ ret.op = "submit_transaction"
    /\ \E i \in DOMAIN conns :
          /\ conns[i].broken
          /\ conns[i]._closed
          /\ conns[i].loop = "recv"
          /\ i \in Registered(p2p)

\* That connection's receive loop has ended and its entry is gone, the
\* other peer having been announced the transaction.
C33_WitnessGone ==
    \E i, j \in DOMAIN conns :
        /\ conns[i].broken
        /\ conns[i]._closed
        /\ LoopGone(i)
        /\ conns[i].writer_closes = 1
        /\ conns[j].sent # <<>>
        /\ ~conns[j]._closed

\* Node.stop has closed a connection whose loop then ended.
C33_WitnessStopped ==
    /\ tasks.stop = "done"
    /\ \E i \in DOMAIN conns :
          /\ ~conns[i].broken
          /\ conns[i].received = 1
          /\ LoopGone(i)

\* A stream that ended, or carried an oversize frame, closed the
\* connection inside its own receive loop.
C33_WitnessEof ==
    /\ ret.op = "_peer_loop"
    /\ ret.arg.kind = "frame"
    /\ ret.arg.length > MAX_MESSAGE_SIZE
    /\ LoopGone(ret.conn)
    /\ conns[ret.conn].writer_closes = 1


(***************************************************************************)
(* Handshakes in flight: connect_to_peer and _handle_inbound look at the   *)
(* size of the registry before their first await and register the peer     *)
(* after the last, with other tasks running in between.                    *)
(***************************************************************************)
\* Tasks of either kind that wait for a handshake at one time, and the
\* connection objects made in all.
MaxHandshakes == 2
MaxPeerConns == 5

\* The addresses of the peers that connect, and of those dialled
InboundAddrs == {4, 5}
DialAddrs == {1, 6}

\* A started node with two registered peers.
InitPeers ==
    /\ chain = GossipStart(0, 0).chain
    /\ mempool = GossipStart(0, 0).mempool
    /\ p2p = GossipStart(0, 0).p2p
    /\ conns = GossipStart(0, 0).conns
    /\ tasks = [NoTasks EXCEPT !._running = TRUE, !._server = "open"]
    /\ remote = None
    /\ ret = NoCall

\* The handshakes a task of either kind waits for
InFlight == Cardinality(tasks.accepted) + Cardinality(tasks.dials)

\* Another task may begin.
MayBegin ==
    /\ InFlight < MaxHandshakes
    /\ Len(conns) + InFlight < MaxPeerConns

\* _handle_inbound up to its first await: a full registry has the writer
\* closed, else the task waits for the peer's HANDSHAKE.
InboundBegin ==
    /\ tasks._server = "open"
    /\ MayBegin
    /\ \E address \in InboundAddrs \ (tasks.accepted \cup DOMAIN p2p.peers) :
          /\ tasks' = IF Cardinality(DOMAIN p2p.peers) >= MAX_PEERS
                      THEN tasks
                      ELSE [tasks EXCEPT !.accepted = @ \cup {address}]
          /\ ret' = [op |-> "_handle_inbound", arg |-> address, err |-> "ok",
                     waits |-> Cardinality(DOMAIN p2p.peers) < MAX_PEERS]
    /\ UNCHANGED <<chain, mempool, p2p, conns, remote>>

\* _handle_inbound from its first await to its end.
InboundEnd ==
    \E address \in tasks.accepted, rx \in StopHandshakeRx(chain) :
        /\ \E r \in {inbound_handshake(NodeOf(chain, mempool, p2p, conns),
                                       address, rx)} :
              /\ Takes(r.node)
              /\ ret' = [op |-> "inbound_handshake", arg |-> rx, err |-> "ok",
                         address |-> address, raised |-> r.raised,
                         conn |-> r.conn]
        /\ tasks' = [tasks EXCEPT !.accepted = @ \ {address}]
        /\ UNCHANGED remote

\* connect_to_peer up to its first await: True for a registered address,
\* False at a full registry, else the task waits for the connection.
DialBegin ==
    /\ MayBegin
    /\ \E address \in DialAddrs \ tasks.dials :
          /\ tasks' = IF \/ address \in DOMAIN p2p.peers
                         \/ Cardinality(DOMAIN p2p.peers) >= MAX_PEERS
                      THEN tasks
                      ELSE [tasks EXCEPT !.dials = @ \cup {address}]
          /\ ret' = [op |-> "connect_to_peer", arg |-> address, err |-> "ok",
                     waits |-> /\ address \notin DOMAIN p2p.peers
                               /\ Cardinality(DOMAIN p2p.peers) < MAX_PEERS,
                     out |-> address \in DOMAIN p2p.peers]
    /\ UNCHANGED <<chain, mempool, p2p, conns, remote>>

\* connect_to_peer from its first await to its end.
DialEnd ==
    \E address \in tasks.dials, opened \in BOOLEAN,
       rx \in StopHandshakeRx(chain) :
        /\ \E r \in {dial_handshake(NodeOf(chain, mempool, p2p, conns),
                                    address, opened, rx)} :
              /\ Takes(r.node)
              /\ ret' = [op |-> "dial_handshake", arg |-> rx, err |-> "ok",
                         address |-> address, opened |-> opened,
                         out |-> r.out, raised |-> r.raised, conn |-> r.conn]
        /\ tasks' = [tasks EXCEPT !.dials = @ \ {address}]
        /\ UNCHANGED remote

\* The stream of a registered peer ends: its receive loop leaves the
\* registry.
PeerLeaves ==
    \E i \in DOMAIN conns :
        /\ conns[i].loop = "recv"
        /\ PeerLoopTurn(i, Eof)

NextPeers ==
    \/ InboundBegin
    \/ InboundEnd
    \/ DialBegin
    \/ DialEnd
    \/ PeerLeaves

SpecPeers == InitPeers /\ [][NextPeers]_vars

(***************************************************************************)
(* Claims about the size of the registry                                   *)
(***************************************************************************)
\* C38: the peer registry never holds more than MAX_PEERS connections,
\* however concurrent dials and inbound handshakes in flight interleave.
C38_RegistryBounded == Cardinality(DOMAIN p2p.peers) <= MAX_PEERS

\* Two handshakes were awaited at once below the limit and both peers were
\* registered: the registry holds MAX_PEERS + 1 connections.
C38_RegistryOverfull ==
    /\ Cardinality(DOMAIN p2p.peers) = MAX_PEERS + 1
    /\ InFlight = 0

\* A connection that arrives at a full registry is turned away at once.
C38_RefusedWhenFull ==
    /\ ret.op = "_handle_inbound"
    /\ ~ret.waits
    /\ Cardinality(DOMAIN p2p.peers) = MAX_PEERS


(***************************************************************************)
(* A sync that is not answered: a node that has asked a peer ahead of it   *)
(* for blocks, and peers that answer, answer with rejected blocks, go      *)
(* silent or hang up.                                                      *)
(***************************************************************************)
\* Frames the peers deliver before they go silent.
MaxSyncFrames == 2

\* What a registered peer delivers to a node on chain c that is syncing:
\* the batch asked for, a short or empty one, a full batch of rejected
\* blocks, an announce from further ahead, and the end of the stream.
SyncRx(c) ==
    {Frame(m, 64, 0) : m \in
        {make_sync_response(Run(height(c) + 1, k)) :
            k \in {0, 1, SYNC_BATCH_SIZE}}
        \cup {make_sync_response([k \in 1..SYNC_BATCH_SIZE |-> BadBlock(c)]),
              make_block_announce(hex(block_hash(PeerBlock(PeerHeight))),
                                  PeerHeight)}}
    \cup {Eof}

\* A started node on the genesis block with two registered peers; the
\* first reported the peers' height, so its receive loop began with
\* _start_sync.
InitSync ==
    /\ chain = GossipStart(0, PeerHeight).chain
    /\ mempool = GossipStart(0, PeerHeight).mempool
    /\ p2p = GossipStart(0, PeerHeight).p2p
    /\ conns = GossipStart(0, PeerHeight).conns
    /\ tasks = [NoTasks EXCEPT !._running = TRUE, !._server = "open"]
    /\ remote = None
    /\ ret = NoCall

\* The receive loop of an open connection reads what its peer delivers.
SyncRxTurn ==
    /\ TotalReceived(conns) - Len(conns) < MaxSyncFrames
    /\ \E i \in DOMAIN conns :
          /\ conns[i].loop = "recv"
          /\ ~conns[i]._closed
          /\ \E rx \in SyncRx(chain) : PeerLoopTurn(i, rx)

NextSync ==
    \/ SyncRxTurn
    \/ Break
    \/ \E i \in 1..MaxConns : LoopEnds(i)

\* The event loop resumes a receive loop whose transport was closed; what
\* the peers deliver, and when, is theirs to choose.
SpecSync ==
    /\ InitSync
    /\ [][NextSync]_vars
    /\ \A i \in 1..MaxConns : FairLoopEnd(i)
    /\ WF_vars(\E i \in 1..MaxConns : LoopEnds(i))

(***************************************************************************)
(* Claims about a sync that is not answered                                *)
(***************************************************************************)
\* C40: whenever _start_sync has set _syncing, the flag is eventually
\* cleared, even if the peer asked hangs up, never answers, or answers
\* with a full batch of rejected blocks.
C40_SyncingEventuallyCleared == p2p._syncing ~> ~p2p._syncing

\* The peer that was asked has hung up, its receive loop has ended and
\* its entry is gone, and _syncing is still set.
C40_StuckAfterDisconnect ==
    /\ p2p._syncing
    /\ conns[1].peer_height = PeerHeight
    /\ conns[1].sent # <<>>
    /\ LoopGone(1)
    /\ height(chain) = 0

\* With _syncing left set, a BLOCK_ANNOUNCE from further ahead has been
\* handled by the other peer's loop and no SYNC_REQUEST went out.
C40_AnnounceStartsNoSync ==
    /\ C40_StuckAfterDisconnect
    /\ ret.op = "_peer_loop"
    /\ ret.conn = 2
    /\ ret.arg.kind = "frame"
    /\ ret.arg.msg.msg_type = "BLOCK_ANNOUNCE"
    /\ conns[2].sent = <<conns[2].sent[1]>>

====
